---- MODULE Spec2Model ----
(***************************************************************************)
(* Versioned knowledge-graph store of deeppavlov_kg (Neo4j backend):       *)
(* the id-index file, the ontology kinds hierarchy, the entity nodes and   *)
(* their chains of State nodes, as written by core/graph.py through the    *)
(* query fragments of core/querymaker.py.                                  *)
(*                                                                         *)
(* Strings whose characters the code inspects (ids, kinds, property keys)  *)
(* are sequences of one-character strings.  Property values are atoms      *)
(* whose Python type is given by PyType.  Time stamps are integers that    *)
(* count ticks; TicksPerSecond ticks make one second.                      *)
(***************************************************************************)
EXTENDS Integers, Sequences, FiniteSets, TLC

(***************************************************************************)
(* Bounds of the model.                                                    *)
(***************************************************************************)
MaxDate == 3
TicksPerSecond == 2
MaxNodes == 2
MaxStates == 3
MaxRelStates == 4
MaxRels == 5
MaxRows == 3

Dates == 0..MaxDate
NoDate == -1

(***************************************************************************)
(* Character classes and the strings the calls are made with.              *)
(***************************************************************************)
AlnumChars == {"a", "b", "h", "d", "e", "l", "t", "i", "n", "k", "p", "c", "g", "m", "o",
               "A", "B", "H", "D", "E", "L", "T", "I", "N", "K", "P", "C", "S"}
Whitespace == {" "}

KIND == <<"K", "i", "n", "d">>
kP == <<"P">>
DELETED == <<"_", "d", "e", "l", "e", "t", "e", "d">>
kH == <<"h">>
kHx == <<"h", "!">>
kL == <<"L">>

idA == <<"a">>
idASlash == <<"a", "/">>
idSpA == <<" ", "a">>
idB == <<"b">>
IdPool == {idA, idASlash, idSpA, idB}

KindPool == {KIND, kP}

\* the datetime values of properties, and the tick each of them stands for
TickOf == [t0 |-> 0, t1 |-> 1, t2 |-> 2]

PyType(v) ==
    CASE v \in {"i1", "i2"} -> "int"
      [] v \in {"s1", "s2"} -> "str"
      [] v \in {"bF", "bT"} -> "bool"
      [] v \in DOMAIN TickOf -> "datetime"

\* property lists of a call: the i-th pair is (property_kinds[i], property_values[i])
PropLists ==
    { <<>>,
      << <<kH, "i1">> >>,
      << <<kH, "s1">> >>,
      << <<kHx, "i2">> >>,
      << <<kH, "i1">>, <<kHx, "i2">> >> }

KeyLists == { <<>>, <<kH>>, <<kHx>> }

IdLists == { <<i>> : i \in IdPool } \cup { <<idA, idB>>, <<idA, idASlash>> }

\* create_entity_kind calls: (kind, parent, property declarations)
KindCalls == { <<kP, KIND, << <<kH, "int">>, <<kHx, "int">> >> >> }

\* the calls of the histories that are about time
TimeProps == { << <<kH, "i1">> >>, << <<kH, "i2">> >> }

(***************************************************************************)
(* Dictionaries are functions; a list of pairs becomes a dictionary with   *)
(* the last pair of a key winning, as dict(zip(keys, values)) does for a   *)
(* list without repeated keys.                                             *)
(***************************************************************************)
EmptyDict == [k \in {} |-> "i1"]

Put(f, k, v) == [x \in (DOMAIN f) \cup {k} |-> IF x = k THEN v ELSE f[x]]

Merge(f, g) == [x \in (DOMAIN f) \cup (DOMAIN g) |-> IF x \in DOMAIN g THEN g[x] ELSE f[x]]

RECURSIVE DictOf(_)
DictOf(pairs) ==
    IF pairs = <<>> THEN EmptyDict
    ELSE LET n == Len(pairs)
         IN Put(DictOf(SubSeq(pairs, 1, n - 1)), pairs[n][1], pairs[n][2])

(***************************************************************************)
(* querymaker.py: sanitization.                                            *)
(***************************************************************************)
IsWordChar(c) == c \in AlnumChars \/ c = "_"

IsIdChar(c) == c \in AlnumChars \/ c \in {"_", "-"}

sanitize_alphanumeric(s) == SelectSeq(s, IsWordChar)

sanitize_id(s) == SelectSeq(s, IsIdChar)

\* the dictionary is rebuilt key by key, in the order of the list it came from
sanitize_dict_keys(pairs) ==
    DictOf([i \in DOMAIN pairs |-> <<sanitize_alphanumeric(pairs[i][1]), pairs[i][2]>>])

(***************************************************************************)
(* The id-index file: one line per stored id, read back with strip().      *)
(***************************************************************************)
RECURSIVE lstrip(_)
lstrip(s) == IF s # <<>> /\ Head(s) \in Whitespace THEN lstrip(Tail(s)) ELSE s

RECURSIVE rstrip(_)
rstrip(s) ==
    IF s # <<>> /\ s[Len(s)] \in Whitespace THEN rstrip(SubSeq(s, 1, Len(s) - 1)) ELSE s

strip(s) == rstrip(lstrip(s))

_is_identical_id(file, id) == id \notin { strip(file[i]) : i \in DOMAIN file }

_store_id(file, id) == Append(file, id)

(***************************************************************************)
(* State of the program.                                                   *)
(*   tree    the pickled kinds hierarchy: kind -> [parent, properties],    *)
(*           the empty function while the file does not exist              *)
(*   ids     the lines of the id-index file                                *)
(*   nodes   the entity nodes of the graph, by internal node id            *)
(*   states  the State nodes, by internal node id, each with its HAS_STATE *)
(*           window, its CURRENT mark and its PREVIOUS state               *)
(*   last    the last call made and what it returned                       *)
(*   calls   the create_entity calls that are under way, one per caller:   *)
(*           the line the caller has reached and the call's arguments      *)
(*   data_model  the relationship data model file: relationship kind ->    *)
(*           the list of [kind_a, kind_b] pairs it may connect             *)
(*   rels    the relationship edges, each from a State node to the R node  *)
(*           of the entity it points to                                    *)
(*   index   the Index object: its active user_id and the rows of the      *)
(*           inverted_index table in rowid order                           *)
(***************************************************************************)
VARIABLES tree, ids, nodes, states, last, calls, data_model, rels, index, documents, redis

vars == <<tree, ids, nodes, states, last, calls, data_model, rels, index, documents, redis>>

Callers == {"c1", "c2"}

\* Index.user_id before set_active_user_id
None == <<"N", "o", "n", "e">>

Idle == [pc |-> "idle", kind |-> KIND, id |-> <<>>, props |-> <<>>, date |-> 0]

NoTree == [k \in {} |-> [parent |-> KIND, properties |-> EmptyDict]]

\* the data model file does not exist
NoModel == [k \in {} |-> <<>>]

\* the TerminusDB database has no document
NoDocuments == [k \in {} |-> EmptyDict]

\* the Redis database has no key and connect_to_redis has not been called
NotConnected == [keys |-> {}, old_keys |-> <<>>, new_keys |-> <<>>, pc |-> "idle"]

NotFound == [found |-> FALSE, props |-> EmptyDict]

Found(p) == [found |-> TRUE, props |-> p]

\* what a mutation leaves in last: its name and whether it returned without raising
Wrote(op, ok) == [op |-> op, ok |-> ok, id |-> <<>>, date |-> 0, res |-> NotFound]

\* what a lookup leaves in last: the question and the answer
Read(op, id, date, res) == [op |-> op, ok |-> res.found, id |-> id, date |-> date, res |-> res]

Init ==
    /\ tree = NoTree
    /\ ids = <<>>
    /\ nodes = <<>>
    /\ states = <<>>
    /\ last = Wrote("none", TRUE)
    /\ calls = [c \in Callers |-> Idle]
    /\ data_model = NoModel
    /\ rels = <<>>
    /\ index = [user_id |-> None, rows |-> <<>>]
    /\ documents = NoDocuments
    /\ redis = NotConnected

(***************************************************************************)
(* ontology.py: the kinds hierarchy.  A type is the string str(type), here *)
(* "int", "str" or "bool".                                                 *)
(***************************************************************************)
RootTree == [k \in {KIND} |-> [parent |-> KIND, properties |-> Put(EmptyDict, DELETED, "bool")]]

_load_ontology_kinds_hierarchy(t) == IF t = NoTree THEN RootTree ELSE t

AddKind(t, kind, parent, properties) ==
    [k \in (DOMAIN t) \cup {kind} |->
        IF k = kind THEN [parent |-> parent, properties |-> properties] ELSE t[k]]

get_entity_kind(t, kind) == IF kind \in DOMAIN t THEN t[kind].properties ELSE EmptyDict

\* the declared properties, then update() with the parent's: the parent's entry wins
KindProperties(decl, parentProperties) == Merge(DictOf(decl), parentProperties)

\* the saved tree after tree.remove_node took its root away: a tree without nodes,
\* which is not the absent file
EmptyTree == [k \in {<<>>} |-> [parent |-> <<>>, properties |-> EmptyDict]]

\* [tree, ok]: the file after the call, and whether the call returned
create_entity_kind_result(t, kind, parent, decl) ==
    LET t0 == _load_ontology_kinds_hierarchy(t)
    IN  IF parent \notin DOMAIN t0 /\ KIND \notin DOMAIN t0
        THEN \* "Kind" is its own absent parent: the calls nest until RecursionError
             [tree |-> t, ok |-> FALSE]
        ELSE IF parent \notin DOMAIN t0
        THEN \* the parent is created under "Kind" and saved; the dict that call returns
             \* has no attribute "data", so the outer call raises
             [tree |-> AddKind(t0, parent, KIND, KindProperties(<<>>, t0[KIND].properties)),
              ok |-> FALSE]
        ELSE IF kind \in DOMAIN t0
             THEN [tree |-> t, ok |-> TRUE]
             ELSE [tree |-> AddKind(t0, kind, parent,
                                    KindProperties(decl, t0[parent].properties)),
                   ok |-> TRUE]

\* the kinds above kind in the tree
RECURSIVE Ancestors(_, _)
Ancestors(t, kind) ==
    IF kind \notin DOMAIN t \/ t[kind].parent = kind \/ t[kind].parent \notin DOMAIN t THEN {}
    ELSE {t[kind].parent} \cup Ancestors(t, t[kind].parent)

\* tree.remove_node: the node goes with all its successors
RemoveNode(t, kind) ==
    LET kept == { k \in DOMAIN t : k # kind /\ kind \notin Ancestors(t, k) }
    IN  IF kept = {} THEN EmptyTree ELSE [k \in kept |-> t[k]]

\* delete_entity_kind: [tree, ok]
delete_entity_kind_result(t, entity_kind) ==
    IF t = NoTree \/ entity_kind \notin DOMAIN t THEN [tree |-> t, ok |-> FALSE]
    ELSE [tree |-> RemoveNode(t, entity_kind), ok |-> TRUE]

\* create_property_kinds_of_entity_kind: the body reads new_property_types and
\* new_property_kinds, which are not its parameters, and raises at its first statement
create_property_kinds_of_entity_kind_result(t, kind, decl) == [tree |-> t, ok |-> FALSE]

\* dict.pop of every key
Pop(f, keys) == [x \in (DOMAIN f) \ keys |-> f[x]]

\* delete_property_kinds: [tree, ok]; a key the kind does not have raises before the save
delete_property_kinds_result(t, entity_kind, property_kinds) ==
    LET keys == { property_kinds[i] : i \in DOMAIN property_kinds }
    IN  IF t = NoTree \/ entity_kind \notin DOMAIN t THEN [tree |-> t, ok |-> FALSE]
        ELSE IF keys \subseteq DOMAIN t[entity_kind].properties
        THEN [tree |-> [t EXCEPT ![entity_kind].properties = Pop(@, keys)], ok |-> TRUE]
        ELSE [tree |-> t, ok |-> FALSE]

\* the check with isinstance in place of the comparison of type names: a bool is an int
_check_with_isinstance(t, plist, kind) ==
    LET kind_properties == get_entity_kind(t, kind)
    IN  \A i \in DOMAIN plist :
            /\ plist[i][1] \in DOMAIN kind_properties
            /\ \/ PyType(plist[i][2]) = kind_properties[plist[i][1]]
               \/ PyType(plist[i][2]) = "bool" /\ kind_properties[plist[i][1]] = "int"

_check_entity_kind_properties_validity(t, plist, kind) ==
    LET kind_properties == get_entity_kind(t, kind)
    IN  \A i \in DOMAIN plist :
            /\ plist[i][1] \in DOMAIN kind_properties
            /\ PyType(plist[i][2]) = kind_properties[plist[i][1]]

(***************************************************************************)
(* The versioner procedures of the graph store that the queries call.      *)
(***************************************************************************)
NewState(n, props, date, prev) ==
    [ent |-> n, props |-> props, start |-> date, end |-> NoDate, current |-> TRUE, prev |-> prev]

CurrentStates(sts, n) == { i \in DOMAIN sts : sts[i].ent = n /\ sts[i].current }

\* graph.versioner.init: the entity node and its first State, which is CURRENT
VersionerInit(ns, sts, kind, id, props, date) ==
    [nodes |-> Append(ns, [Id |-> id, kind |-> kind]),
     states |-> Append(sts, NewState(Len(ns) + 1, props, date, 0))]

\* graph.versioner.patch on entity node n
VersionerPatch(sts, n, updates, date) ==
    IF CurrentStates(sts, n) = {}
    THEN Append(sts, NewState(n, updates, date, 0))
    ELSE LET c == CHOOSE i \in CurrentStates(sts, n) : TRUE
             closed == [sts EXCEPT ![c].end = date, ![c].current = FALSE]
         IN  Append(closed, NewState(n, Merge(sts[c].props, updates), date, c))

RECURSIVE VersionerPatchAll(_, _, _, _)
VersionerPatchAll(sts, ns, updates, date) ==
    IF ns = {} THEN sts
    ELSE LET n == CHOOSE x \in ns : \A y \in ns : x <= y
         IN  VersionerPatchAll(VersionerPatch(sts, n, updates, date), ns \ {n}, updates, date)

ChainOf(sts, n) == { i \in DOMAIN sts : sts[i].ent = n }

\* the edges of rs that leave State i, in their order
RECURSIVE EdgesOf(_, _)
EdgesOf(rs, i) ==
    IF rs = <<>> THEN <<>>
    ELSE IF Head(rs).from = i THEN <<Head(rs)>> \o EdgesOf(Tail(rs), i)
         ELSE EdgesOf(Tail(rs), i)

\* the edges of rs, each leaving State i
MovedTo(es, i) == [k \in DOMAIN es |-> [es[k] EXCEPT !.from = i]]

\* a new State takes over the outgoing relationships of the State it follows: the
\* edges after the States k+1.. of after were added to before
RECURSIVE CopyRelsFrom(_, _, _)
CopyRelsFrom(rs, after, k) ==
    IF k > Len(after) THEN rs
    ELSE CopyRelsFrom(IF after[k].prev = 0 THEN rs
                      ELSE rs \o MovedTo(EdgesOf(rs, after[k].prev), k),
                      after, k + 1)

CopyRels(rs, before, after) == CopyRelsFrom(rs, after, Len(before) + 1)

(***************************************************************************)
(* graph.py: lookups.                                                      *)
(***************************************************************************)
\* MATCH (a) WHERE a.Id IN [sanitize_id(v) for v in list_of_ids]
_get_entity_nodes(ns, list_of_ids) ==
    { n \in DOMAIN ns : ns[n].Id \in { sanitize_id(list_of_ids[i]) : i \in DOMAIN list_of_ids } }

\* MATCH (a {Id: $Id_a}): the id is a parameter
MatchById(ns, id) == { n \in DOMAIN ns : ns[n].Id = id }

\* rows of MATCH (s {Id: $Id_s}) CALL graph.versioner.get.current.state(s)
CurrentStateRows(ns, sts, id) == UNION { CurrentStates(sts, n) : n \in MatchById(ns, id) }

\* the [[node]] = node of a result with several rows
Raised == <<"r", "a", "i", "s", "e">>

\* _get_current_state_node: the properties of the State node, or None when the query
\* gives no row or the procedure fails
_get_current_state_node(ns, sts, id_) ==
    LET rows == CurrentStateRows(ns, sts, id_)
    IN  IF rows = {} THEN None
        ELSE IF Cardinality(rows) = 1 THEN sts[CHOOSE i \in rows : TRUE].props
        ELSE Raised

\* strftime("%Y-%m-%dT%H:%M:%S"): the fraction of the second is dropped
strftime_seconds(date) == date - (date % TicksPerSecond)

\* querymaker.where_state_on_date, on the HAS_STATE edge of state st
where_state_on_date(st, date_) ==
    /\ st.start <= date_
    /\ (st.end >= date_ \/ st.end = NoDate)

\* the rows of get_entities_by_date
get_entities_by_date(ns, sts, entity_ids, date_to_inspect) ==
    { i \in DOMAIN sts :
        /\ sts[i].ent \in _get_entity_nodes(ns, entity_ids)
        /\ where_state_on_date(sts[i], strftime_seconds(date_to_inspect)) }

\* get_properties_of_entity: the properties of the CURRENT state
get_properties_of_entity(ns, sts, entity_id) ==
    LET rows == CurrentStateRows(ns, sts, entity_id)
    IN  IF Cardinality(rows) = 1 THEN Found(sts[CHOOSE i \in rows : TRUE].props) ELSE NotFound

(***************************************************************************)
(* graph.py: the mutations, as the value they leave in the store.          *)
(***************************************************************************)
\* a REMOVE that removes nothing
RemoveNothing(f, ks) == f

Remove(f, ks) == [x \in (DOMAIN f) \ ks |-> f[x]]

\* create_entity: [ok, ids, nodes, states]
create_entity_result(t, file, ns, sts, kind, entity_id, plist, create_date) ==
    LET property_list == Append(plist, <<DELETED, "bF">>)
        made == VersionerInit(ns, sts, sanitize_alphanumeric(kind), entity_id,
                              sanitize_dict_keys(property_list), create_date)
    IN  IF /\ _is_identical_id(file, entity_id)
           /\ _check_entity_kind_properties_validity(t, property_list, kind)
        THEN [ok |-> TRUE, ids |-> _store_id(file, entity_id),
              nodes |-> made.nodes, states |-> made.states]
        ELSE [ok |-> FALSE, ids |-> file, nodes |-> ns, states |-> sts]

\* create_or_update_properties_of_entities: [ok, states]
update_result(t, ns, sts, entity_ids, plist, change_date) ==
    LET entities == _get_entity_nodes(ns, entity_ids)
        valid == \A n \in entities : _check_entity_kind_properties_validity(t, plist, ns[n].kind)
        known == \A i \in DOMAIN entity_ids : _get_entity_nodes(ns, <<entity_ids[i]>>) # {}
    IN  IF valid /\ known
        THEN [ok |-> entities # {},
              states |-> VersionerPatchAll(sts, entities, sanitize_dict_keys(plist), change_date)]
        ELSE [ok |-> FALSE, states |-> sts]

\* remove_properties_query builds "REMOVE state." for these lists, which is no statement
RemoveIsMalformed(property_kinds) ==
    \/ property_kinds = <<>>
    \/ \E i \in DOMAIN property_kinds : sanitize_alphanumeric(property_kinds[i]) = <<>>

\* delete_properties_from_entity with the REMOVE on the State that was current at the call
delete_properties_of_current_state(ns, sts, entity_id, property_kinds, change_date) ==
    IF Cardinality(CurrentStateRows(ns, sts, entity_id)) # 1
    THEN [ok |-> FALSE, states |-> sts]
    ELSE LET current_state == CHOOSE i \in CurrentStateRows(ns, sts, entity_id) : TRUE
             created == VersionerPatchAll(sts, MatchById(ns, entity_id), EmptyDict, change_date)
             removed == { sanitize_alphanumeric(property_kinds[i]) : i \in DOMAIN property_kinds }
         IN  IF RemoveIsMalformed(property_kinds)
             THEN [ok |-> FALSE, states |-> created]
             ELSE [ok |-> TRUE,
                   states |-> [created EXCEPT ![current_state].props = Remove(@, removed)]]
\* delete_properties_from_entity: [ok, states]
delete_properties_result(ns, sts, entity_id, property_kinds, change_date) ==
    IF Cardinality(CurrentStateRows(ns, sts, entity_id)) # 1
    THEN [ok |-> FALSE, states |-> sts]
    ELSE LET created == VersionerPatchAll(sts, MatchById(ns, entity_id), EmptyDict, change_date)
             new_current_state == CHOOSE i \in CurrentStateRows(ns, created, entity_id) : TRUE
             removed == { sanitize_alphanumeric(property_kinds[i]) : i \in DOMAIN property_kinds }
         IN  IF RemoveIsMalformed(property_kinds)
             THEN [ok |-> FALSE, states |-> created]
             ELSE [ok |-> TRUE,
                   states |-> [created EXCEPT ![new_current_state].props = Remove(@, removed)]]

\* delete_entity: the _deleted property set through the update path
delete_entity_result(t, ns, sts, entity_id, deletion_date) ==
    IF _get_entity_nodes(ns, <<entity_id>>) = {}
    THEN [ok |-> FALSE, states |-> sts]
    ELSE update_result(t, ns, sts, <<entity_id>>, << <<DELETED, "bT">> >>, deletion_date)

(***************************************************************************)
(* ontology.py: the relationship data model.  An entry of a relationship   *)
(* kind is <<kind_a, kind_b, properties>>.                                 *)
(***************************************************************************)
Pairs(triples) == { <<triples[i][1], triples[i][2]>> : i \in DOMAIN triples }

\* create_relationship_kind without the search for the pair
create_relationship_kind_append(m, entity_kind_a, relationship_kind, entity_kind_b) ==
    LET triple == <<entity_kind_a, entity_kind_b, EmptyDict>>
    IN  [k \in (DOMAIN m) \cup {relationship_kind} |->
            IF k # relationship_kind THEN m[k]
            ELSE IF k \in DOMAIN m THEN Append(m[k], triple) ELSE <<triple>>]

\* the file after create_relationship_kind
create_relationship_kind_result(m, entity_kind_a, relationship_kind, entity_kind_b) ==
    LET triple == <<entity_kind_a, entity_kind_b, EmptyDict>>
    IN  IF relationship_kind \in DOMAIN m
        THEN IF <<entity_kind_a, entity_kind_b>> \notin Pairs(m[relationship_kind])
             THEN [m EXCEPT ![relationship_kind] = Append(@, triple)]
             ELSE m
        ELSE [k \in (DOMAIN m) \cup {relationship_kind} |->
                 IF k = relationship_kind THEN <<triple>> ELSE m[k]]

\* what create_relationship_kind returns: None where it finds the pair registered, and
\* None where it falls off its end after saving
create_relationship_kind_return(m, entity_kind_a, relationship_kind, entity_kind_b) ==
    IF relationship_kind \in DOMAIN m /\ <<entity_kind_a, entity_kind_b>> \in Pairs(m[relationship_kind])
    THEN None
    ELSE None

\* the loop of delete_relationship_kind: list.pop(idx) inside enumerate, so the entry
\* that moves into place idx is not looked at
RECURSIVE PopMatches(_, _, _, _)
PopMatches(triples, idx, entity_kind_a, entity_kind_b) ==
    IF idx > Len(triples) THEN triples
    ELSE IF triples[idx][1] = entity_kind_a /\ triples[idx][2] = entity_kind_b
    THEN PopMatches(SubSeq(triples, 1, idx - 1) \o SubSeq(triples, idx + 1, Len(triples)),
                    idx + 1, entity_kind_a, entity_kind_b)
    ELSE PopMatches(triples, idx + 1, entity_kind_a, entity_kind_b)

\* delete_relationship_kind: [data_model, ok]
delete_relationship_kind_result(m, entity_kind_a, relationship_kind, entity_kind_b) ==
    IF m = NoModel \/ relationship_kind \notin DOMAIN m THEN [data_model |-> m, ok |-> FALSE]
    ELSE [data_model |-> [m EXCEPT ![relationship_kind] =
                             PopMatches(@, 1, entity_kind_a, entity_kind_b)],
          ok |-> TRUE]

\* the check with the properties looked up in every triple of the relationship kind
_is_valid_for_every_triple(m, kind_a, relationship_kind, kind_b, plist) ==
    /\ relationship_kind \in DOMAIN m
    /\ <<kind_a, kind_b>> \in Pairs(m[relationship_kind])
    /\ \A t \in DOMAIN m[relationship_kind] :
          LET model == m[relationship_kind][t]
          IN  \A i \in DOMAIN plist :
                  /\ plist[i][1] \in DOMAIN model[3]
                  /\ PyType(plist[i][2]) = model[3][plist[i][1]]
\* TRUE when the call returns True; a return of False and a raise are both FALSE
_is_valid_relationship_model(m, kind_a, relationship_kind, kind_b, plist) ==
    /\ relationship_kind \in DOMAIN m
    /\ <<kind_a, kind_b>> \in Pairs(m[relationship_kind])
    /\ \A t \in DOMAIN m[relationship_kind] :
          LET model == m[relationship_kind][t]
          IN  (model[1] = kind_a /\ model[2] = kind_b) =>
                  \A i \in DOMAIN plist :
                      /\ plist[i][1] \in DOMAIN model[3]
                      /\ PyType(plist[i][2]) = model[3][plist[i][1]]

\* _check_relationship_validity, when a_node[0] is node na and b_node[0] is node nb
_check_relationship_validity(m, ns, na, relationship_kind, nb, plist) ==
    _is_valid_relationship_model(m, ns[na].kind, relationship_kind, ns[nb].kind, plist)

(***************************************************************************)
(* The versioner procedures for relationships.  An edge leaves a State of  *)
(* the source entity and points to the R node of the entity it is FOR.     *)
(***************************************************************************)
NewEdge(from, kind, to, props) == [from |-> from, kind |-> kind, to |-> to, props |-> props]

\* the source entity gets a new current State, which takes over the edges of the
\* State before it
NewSourceState(sts, rs, a, date) ==
    LET patched == VersionerPatch(sts, a, EmptyDict, date)
    IN  [states |-> patched, rels |-> CopyRels(rs, sts, patched)]

\* graph.versioner.relationship.create(a, b, kind, props, date)
VersionerRelationshipCreate(sts, rs, a, b, kind, props, date) ==
    LET src == NewSourceState(sts, rs, a, date)
    IN  [states |-> src.states,
         rels |-> Append(src.rels, NewEdge(Len(src.states), kind, b, props))]

RECURSIVE Without(_, _, _, _)
Without(rs, from, kind, to) ==
    IF rs = <<>> THEN <<>>
    ELSE IF Head(rs).from = from /\ Head(rs).kind = kind /\ Head(rs).to = to
         THEN Without(Tail(rs), from, kind, to)
         ELSE <<Head(rs)>> \o Without(Tail(rs), from, kind, to)

\* graph.versioner.relationship.delete(a, b, kind, date)
VersionerRelationshipDelete(sts, rs, a, b, kind, date) ==
    LET src == NewSourceState(sts, rs, a, date)
    IN  [states |-> src.states,
         rels |-> Without(src.rels, Len(src.states), kind, b)]

(***************************************************************************)
(* graph.py: relationships.                                                *)
(***************************************************************************)
limit == 10

\* the rows of the match of search_for_relationships, by the edge r of each
MatchRelationships(ns, sts, rs, relationship_kind, id_a, id_b, search_all_states) ==
    { e \in DOMAIN rs :
        /\ id_a = <<>> \/ ns[sts[rs[e].from].ent].Id = id_a
        /\ id_b = <<>> \/ ns[rs[e].to].Id = id_b
        /\ relationship_kind = <<>> \/ rs[e].kind = sanitize_alphanumeric(relationship_kind)
        /\ search_all_states \/ sts[rs[e].from].current }

\* search_for_relationships with state_relationship_kind always "HAS_STATE"
search_for_relationships_has_state(ns, sts, rs, relationship_kind, id_a, id_b, search_all_states) ==
    MatchRelationships(ns, sts, rs, relationship_kind, id_a, id_b, TRUE)

\* search_for_relationships with state_relationship_kind always "CURRENT"
search_for_relationships_current(ns, sts, rs, relationship_kind, id_a, id_b, search_all_states) ==
    MatchRelationships(ns, sts, rs, relationship_kind, id_a, id_b, FALSE)

\* search_for_relationships: the rows, no more than LIMIT of them
search_for_relationships(ns, sts, rs, relationship_kind, id_a, id_b, search_all_states) ==
    LET rows == MatchRelationships(ns, sts, rs, relationship_kind, id_a, id_b,
                                   search_all_states)
    IN  IF Cardinality(rows) <= limit THEN rows
        ELSE CHOOSE part \in SUBSET rows : Cardinality(part) = limit

\* the rows of MATCH (a {Id: $Id_a}) MATCH (b {Id: $Id_b})
MatchPairs(ns, id_a, id_b) == MatchById(ns, id_a) \X MatchById(ns, id_b)

FirstRow(rows) ==
    CHOOSE p \in rows : \A q \in rows : p[1] < q[1] \/ (p[1] = q[1] /\ p[2] <= q[2])

\* the create procedure called on every row
RECURSIVE CreateOnRows(_, _, _, _, _, _)
CreateOnRows(sts, rs, rows, kind, props, date) ==
    IF rows = {} THEN [states |-> sts, rels |-> rs]
    ELSE LET p == FirstRow(rows)
             made == VersionerRelationshipCreate(sts, rs, p[1], p[2], kind, props, date)
         IN  CreateOnRows(made.states, made.rels, rows \ {p}, kind, props, date)

\* create_relationship with a_node[0] = na and b_node[0] = nb: [ok, states, rels].
\* [[relationship]] = relationship raises unless the query gave one row.
create_relationship_result(m, ns, sts, rs, na, nb, id_a, relationship_kind, id_b, plist, create_date) ==
    LET rel_properties == Append(plist, <<DELETED, "bF">>)
        rows == MatchPairs(ns, id_a, id_b)
        made == CreateOnRows(sts, rs, rows, sanitize_alphanumeric(relationship_kind),
                             sanitize_dict_keys(rel_properties), create_date)
    IN  IF _check_relationship_validity(m, ns, na, relationship_kind, nb, plist)
        THEN [ok |-> Cardinality(rows) = 1, states |-> made.states, rels |-> made.rels]
        ELSE [ok |-> FALSE, states |-> sts, rels |-> rs]

\* the delete procedure called on every row
RECURSIVE DeleteOnRows(_, _, _, _, _)
DeleteOnRows(sts, rs, rows, kind, date) ==
    IF rows = {} THEN [states |-> sts, rels |-> rs]
    ELSE LET p == FirstRow(rows)
             gone == VersionerRelationshipDelete(sts, rs, p[1], p[2], kind, date)
         IN  DeleteOnRows(gone.states, gone.rels, rows \ {p}, kind, date)

\* delete_relationship: [ok, states, rels]; ok is FALSE when it returns None
delete_relationship_result(ns, sts, rs, id_a, relationship_kind, id_b, deletion_date) ==
    LET gone == DeleteOnRows(sts, rs, MatchPairs(ns, id_a, id_b),
                             sanitize_alphanumeric(relationship_kind), deletion_date)
    IN  IF search_for_relationships(ns, sts, rs, relationship_kind, id_a, id_b, FALSE) # {}
        THEN [ok |-> TRUE, states |-> gone.states, rels |-> gone.rels]
        ELSE [ok |-> FALSE, states |-> sts, rels |-> rs]

(***************************************************************************)
(* The calls.                                                              *)
(***************************************************************************)
ChainLen(sts, n) == Cardinality(ChainOf(sts, n))

\* a call is made only while the store has room for what it writes
HasRoom(ns, sts) ==
    /\ Len(ns) <= MaxNodes
    /\ Len(sts) <= MaxStates

RelRoom(ns, sts, rs) ==
    /\ Len(ns) <= MaxNodes
    /\ Len(sts) <= MaxRelStates
    /\ Len(rs) <= MaxRels

create_entity_kind(kind, parent, decl) ==
    LET r == create_entity_kind_result(tree, kind, parent, decl)
    IN  /\ tree' = r.tree
        /\ last' = Wrote("create_entity_kind", r.ok)
        /\ UNCHANGED <<documents, redis, index, ids, nodes, states, calls, data_model, rels>>

delete_entity_kind(entity_kind) ==
    LET r == delete_entity_kind_result(tree, entity_kind)
    IN  /\ tree' = r.tree
        /\ last' = Wrote("delete_entity_kind", r.ok)
        /\ UNCHANGED <<documents, redis, index, ids, nodes, states, calls, data_model, rels>>

create_property_kinds_of_entity_kind(kind, decl) ==
    LET r == create_property_kinds_of_entity_kind_result(tree, kind, decl)
    IN  /\ tree' = r.tree
        /\ last' = Wrote("create_property_kinds_of_entity_kind", r.ok)
        /\ UNCHANGED <<documents, redis, index, ids, nodes, states, calls, data_model, rels>>

delete_property_kinds(entity_kind, property_kinds) ==
    LET r == delete_property_kinds_result(tree, entity_kind, property_kinds)
    IN  /\ tree' = r.tree
        /\ last' = Wrote("delete_property_kinds", r.ok)
        /\ UNCHANGED <<documents, redis, index, ids, nodes, states, calls, data_model, rels>>

create_entity(kind, entity_id, plist, create_date) ==
    LET r == create_entity_result(tree, ids, nodes, states, kind, entity_id, plist, create_date)
    IN  /\ ids' = r.ids
        /\ nodes' = r.nodes
        /\ states' = r.states
        /\ last' = Wrote("create_entity", r.ok)
        /\ UNCHANGED <<documents, redis, index, tree, calls, data_model, rels>>

create_or_update_properties_of_entities(entity_ids, plist, change_date) ==
    LET r == update_result(tree, nodes, states, entity_ids, plist, change_date)
    IN  /\ states' = r.states
        /\ last' = Wrote("create_or_update_properties", r.ok)
        /\ rels' = CopyRels(rels, states, r.states)
        /\ UNCHANGED <<documents, redis, index, tree, ids, nodes, calls, data_model>>

delete_properties_from_entity(entity_id, property_kinds, change_date) ==
    LET r == delete_properties_result(nodes, states, entity_id, property_kinds, change_date)
    IN  /\ states' = r.states
        /\ last' = Wrote("delete_properties", r.ok)
        /\ rels' = CopyRels(rels, states, r.states)
        /\ UNCHANGED <<documents, redis, index, tree, ids, nodes, calls, data_model>>

delete_entity(entity_id, deletion_date) ==
    LET r == delete_entity_result(tree, nodes, states, entity_id, deletion_date)
    IN  /\ states' = r.states
        /\ last' = Wrote("delete_entity", r.ok)
        /\ rels' = CopyRels(rels, states, r.states)
        /\ UNCHANGED <<documents, redis, index, tree, ids, nodes, calls, data_model>>

\* get_entity_by_date returns entities[0]: the rows come in no stated order
get_entity_by_date(entity_id, date_to_inspect) ==
    LET rows == get_entities_by_date(nodes, states, <<entity_id>>, date_to_inspect)
    IN  /\ \/ /\ rows = {}
              /\ last' = Read("get_entity_by_date", entity_id, date_to_inspect, NotFound)
           \/ \E i \in rows :
                 last' = Read("get_entity_by_date", entity_id, date_to_inspect,
                              Found(states[i].props))
        /\ UNCHANGED <<documents, redis, index, tree, ids, nodes, states, calls, data_model, rels>>

create_relationship_kind(entity_kind_a, relationship_kind, entity_kind_b) ==
    /\ data_model' = create_relationship_kind_result(data_model, entity_kind_a,
                                                     relationship_kind, entity_kind_b)
    /\ last' = Wrote("create_relationship_kind", data_model' # data_model)
    /\ UNCHANGED <<documents, redis, index, tree, ids, nodes, states, calls, rels>>

delete_relationship_kind(entity_kind_a, relationship_kind, entity_kind_b) ==
    LET r == delete_relationship_kind_result(data_model, entity_kind_a, relationship_kind,
                                             entity_kind_b)
    IN  /\ data_model' = r.data_model
        /\ last' = Wrote("delete_relationship_kind", r.ok)
        /\ UNCHANGED <<documents, redis, index, tree, ids, nodes, states, calls, rels>>

\* a_node[0] and b_node[0] are any of the nodes the lookups return
create_relationship(id_a, relationship_kind, id_b, plist, create_date) ==
    LET as == _get_entity_nodes(nodes, <<id_a>>)
        bs == _get_entity_nodes(nodes, <<id_b>>)
    IN  /\ \/ /\ as = {} \/ bs = {}
              /\ last' = Wrote("create_relationship", FALSE)
              /\ UNCHANGED <<documents, redis, index, states, rels>>
           \/ \E na \in as, nb \in bs :
                 LET r == create_relationship_result(data_model, nodes, states, rels, na, nb,
                              id_a, relationship_kind, id_b, plist, create_date)
                 IN  /\ states' = r.states
                     /\ rels' = r.rels
                     /\ last' = Wrote("create_relationship", r.ok)
        /\ UNCHANGED <<documents, redis, index, tree, ids, nodes, calls, data_model>>

delete_relationship(id_a, relationship_kind, id_b, deletion_date) ==
    LET r == delete_relationship_result(nodes, states, rels, id_a, relationship_kind, id_b,
                                        deletion_date)
    IN  /\ states' = r.states
        /\ rels' = r.rels
        /\ last' = Wrote("delete_relationship", r.ok)
        /\ UNCHANGED <<documents, redis, index, tree, ids, nodes, calls, data_model>>

(***************************************************************************)
(* Spec: the store under any sequence of calls made at one time stamp.     *)
(***************************************************************************)
KindStep == \E c \in KindCalls : create_entity_kind(c[1], c[2], c[3])

CreateStep ==
    \E kind \in KindPool, id \in IdPool, plist \in PropLists :
        create_entity(kind, id, plist, 0) /\ HasRoom(nodes', states')

UpdateStep ==
    \E idl \in IdLists, plist \in PropLists :
        create_or_update_properties_of_entities(idl, plist, 0) /\ HasRoom(nodes', states')

DeletePropertiesStep ==
    \E id \in IdPool, keys \in KeyLists :
        delete_properties_from_entity(id, keys, 0) /\ HasRoom(nodes', states')

DeleteEntityStep == \E id \in IdPool : delete_entity(id, 0) /\ HasRoom(nodes', states')

Next ==
    \/ KindStep
    \/ CreateStep
    \/ UpdateStep
    \/ DeletePropertiesStep
    \/ DeleteEntityStep

Spec == Init /\ [][Next]_vars

(***************************************************************************)
(* SpecTime: the history of one entity under calls made with any time      *)
(* stamps, and the lookups by date.                                        *)
(***************************************************************************)
TimeCreateStep ==
    \E plist \in TimeProps, d \in Dates :
        create_entity(kP, idA, plist, d) /\ HasRoom(nodes', states')

TimeUpdateStep ==
    \E plist \in TimeProps, d \in Dates :
        create_or_update_properties_of_entities(<<idA>>, plist, d) /\ HasRoom(nodes', states')

TimeDeletePropertiesStep ==
    \E d \in Dates : delete_properties_from_entity(idA, <<kH>>, d) /\ HasRoom(nodes', states')

ByDateStep == \E d \in Dates : get_entity_by_date(idA, d)

NextTime ==
    \/ KindStep
    \/ TimeCreateStep
    \/ TimeUpdateStep
    \/ TimeDeletePropertiesStep
    \/ ByDateStep

SpecTime == Init /\ [][NextTime]_vars

(***************************************************************************)
(* SpecRace: create_entity called by several callers at once.  Each read   *)
(* of the id-index file, each read of the kinds hierarchy, each query and  *)
(* each append to the id-index file is one step.                           *)
(***************************************************************************)
RaceIds == {idA, idB}

RaceProps == { << <<kH, "i1">> >>, << <<kH, "i2">> >> }

\* the call is made
create_entity_begin(c, kind, entity_id, plist, create_date) ==
    /\ calls[c].pc = "idle"
    /\ calls' = [calls EXCEPT ![c] = [pc |-> "check_id", kind |-> kind, id |-> entity_id,
                                      props |-> Append(plist, <<DELETED, "bF">>),
                                      date |-> create_date]]
    /\ UNCHANGED <<documents, redis, index, tree, ids, nodes, states, last, data_model, rels>>

\* if not self._is_identical_id(entity_id): raise
create_entity_check_id(c) ==
    /\ calls[c].pc = "check_id"
    /\ calls' = [calls EXCEPT ![c].pc =
                    IF _is_identical_id(ids, calls[c].id) THEN "check_kind" ELSE "raised"]
    /\ UNCHANGED <<documents, redis, index, tree, ids, nodes, states, last, data_model, rels>>

\* self.ontology._check_entity_kind_properties_validity(...)
create_entity_check_kind(c) ==
    /\ calls[c].pc = "check_kind"
    /\ calls' = [calls EXCEPT ![c].pc =
                    IF _check_entity_kind_properties_validity(tree, calls[c].props, calls[c].kind)
                    THEN "query" ELSE "raised"]
    /\ UNCHANGED <<documents, redis, index, tree, ids, nodes, states, last, data_model, rels>>

\* db.cypher_query(query, params)
create_entity_query(c) ==
    LET made == VersionerInit(nodes, states, sanitize_alphanumeric(calls[c].kind), calls[c].id,
                              sanitize_dict_keys(calls[c].props), calls[c].date)
    IN  /\ calls[c].pc = "query"
        /\ HasRoom(made.nodes, made.states)
        /\ nodes' = made.nodes
        /\ states' = made.states
        /\ calls' = [calls EXCEPT ![c].pc = "store_id"]
        /\ UNCHANGED <<documents, redis, index, tree, ids, last, data_model, rels>>

\* self._store_id(entity_id), and the call returns
create_entity_store_id(c) ==
    /\ calls[c].pc = "store_id"
    /\ ids' = _store_id(ids, calls[c].id)
    /\ calls' = [calls EXCEPT ![c].pc = "returned"]
    /\ last' = Wrote("create_entity", TRUE)
    /\ UNCHANGED <<documents, redis, index, tree, nodes, states, data_model, rels>>

RaceBeginStep ==
    \E c \in Callers, id \in RaceIds, plist \in RaceProps :
        create_entity_begin(c, kP, id, plist, 0)

RaceCheckIdStep == \E c \in Callers : create_entity_check_id(c)

RaceCheckKindStep == \E c \in Callers : create_entity_check_kind(c)

RaceQueryStep == \E c \in Callers : create_entity_query(c)

RaceStoreIdStep == \E c \in Callers : create_entity_store_id(c)

NextRace ==
    \/ KindStep
    \/ RaceBeginStep
    \/ RaceCheckIdStep
    \/ RaceCheckKindStep
    \/ RaceQueryStep
    \/ RaceStoreIdStep

SpecRace == Init /\ [][NextRace]_vars

(***************************************************************************)
(* SpecPatch: histories of create_entity and create_or_update_properties   *)
(* calls only.                                                             *)
(***************************************************************************)
NextPatch ==
    \/ KindStep
    \/ TimeCreateStep
    \/ TimeUpdateStep

SpecPatch == Init /\ [][NextPatch]_vars

(***************************************************************************)
(* SpecRel: entities, their updates and the relationships between them.    *)
(***************************************************************************)
RelIds == {idA, idASlash}

RelEntities == { <<kP, idA>>, <<KIND, idASlash>> }

RelUpdates == { << <<kH, "i1">> >> }

RelProps == { <<>>, << <<kH, "i1">> >> }

RelKindStep == create_relationship_kind(kP, kL, kP)

RelEntityStep ==
    \E e \in RelEntities :
        create_entity(e[1], e[2], <<>>, 0) /\ RelRoom(nodes', states', rels')

RelUpdateStep ==
    \E id \in RelIds, plist \in RelUpdates :
        create_or_update_properties_of_entities(<<id>>, plist, 0)
            /\ RelRoom(nodes', states', rels')

CreateRelationshipStep ==
    \E id_a \in RelIds, id_b \in RelIds, plist \in RelProps :
        create_relationship(id_a, kL, id_b, plist, 0) /\ RelRoom(nodes', states', rels')

DeleteRelationshipStep ==
    \E id_a \in RelIds, id_b \in RelIds :
        delete_relationship(id_a, kL, id_b, 0) /\ RelRoom(nodes', states', rels')

RelDeleteEntityStep ==
    \E id \in RelIds : delete_entity(id, 0) /\ RelRoom(nodes', states', rels')

NextRel ==
    \/ KindStep
    \/ RelKindStep
    \/ RelEntityStep
    \/ RelUpdateStep
    \/ CreateRelationshipStep
    \/ DeleteRelationshipStep
    \/ RelDeleteEntityStep

SpecRel == Init /\ [][NextRel]_vars

(***************************************************************************)
(* SpecProps: the property maps of two entities under updates and removals *)
(* of properties made at two time stamps.                                  *)
(***************************************************************************)
PropsDates == {0, 1}

PropsCreateStep ==
    \E e \in RelEntities, plist \in TimeProps \cup {<<>>} :
        create_entity(e[1], e[2], plist, 0) /\ HasRoom(nodes', states')

PropsUpdateStep ==
    \E id \in RelIds, plist \in TimeProps, d \in PropsDates :
        create_or_update_properties_of_entities(<<id>>, plist, d) /\ HasRoom(nodes', states')

PropsDeleteStep ==
    \E id \in RelIds, keys \in KeyLists, d \in PropsDates :
        delete_properties_from_entity(id, keys, d) /\ HasRoom(nodes', states')

NextProps ==
    \/ KindStep
    \/ PropsCreateStep
    \/ PropsUpdateStep
    \/ PropsDeleteStep

SpecProps == Init /\ [][NextProps]_vars

(***************************************************************************)
(* SpecKinds: the kinds hierarchy under calls that create and delete kinds *)
(* and their property kinds, with any kind and parent.                     *)
(***************************************************************************)
TreeKinds == {KIND, kP, kH, kL}

TreeDecls == { <<>>, << <<kH, "int">> >>, << <<kH, "str">> >> }

TreeKindStep ==
    \E kind \in TreeKinds \ {KIND}, parent \in TreeKinds, decl \in TreeDecls :
        create_entity_kind(kind, parent, decl)

TreeKeyLists == { <<kH>>, <<DELETED>>, <<kH, DELETED>> }

TreeDeleteKindStep == \E entity_kind \in TreeKinds : delete_entity_kind(entity_kind)

TreeCreatePropertiesStep ==
    \E kind \in TreeKinds, decl \in TreeDecls \ {<<>>} :
        create_property_kinds_of_entity_kind(kind, decl)

TreeDeletePropertiesStep ==
    \E entity_kind \in TreeKinds, property_kinds \in TreeKeyLists :
        delete_property_kinds(entity_kind, property_kinds)

NextKinds ==
    \/ TreeKindStep
    \/ TreeDeleteKindStep
    \/ TreeCreatePropertiesStep
    \/ TreeDeletePropertiesStep

SpecKinds == Init /\ [][NextKinds]_vars

\* the calls that create only
NextKindsCreate ==
    \/ TreeKindStep
    \/ TreeCreatePropertiesStep

SpecKindsCreate == Init /\ [][NextKindsCreate]_vars

(***************************************************************************)
(* SpecCheck: the property check applied to any batch and kind, over the   *)
(* trees that create_entity_kind builds.                                   *)
(***************************************************************************)
CheckLists ==
    { <<>>,
      << <<kH, "i1">> >>,
      << <<kH, "s1">> >>,
      << <<kH, "bT">> >>,
      << <<kL, "i1">> >>,
      << <<DELETED, "bF">> >>,
      << <<kH, "i1">>, <<DELETED, "bF">> >>,
      << <<kH, "i1">>, <<DELETED, "s1">> >>,
      << <<kH, "i1">>, <<kL, "i1">> >> }

\* what a check leaves in last: the kind, the batch and the answer
Checked(kind, plist, ok) ==
    [op |-> "check", ok |-> ok, id |-> kind, date |-> 0, res |-> [found |-> ok, props |-> plist]]

check_properties(plist, kind) ==
    /\ last' = Checked(kind, plist, _check_entity_kind_properties_validity(tree, plist, kind))
    /\ UNCHANGED <<documents, redis, index, tree, ids, nodes, states, calls, data_model, rels>>

CheckStep == \E plist \in CheckLists, kind \in TreeKinds : check_properties(plist, kind)

NextCheck ==
    \/ TreeKindStep
    \/ CheckStep

SpecCheck == Init /\ [][NextCheck]_vars

(***************************************************************************)
(* SpecRelKinds: the relationship data model under calls that register and *)
(* remove pairings, and the validity check applied to any pairing.         *)
(***************************************************************************)
kAll == <<"A", "l", "l">>

RelKindCalls ==
    { <<kP, kL, kP>>, <<kAll, kL, kP>>, <<kP, kL, kAll>>, <<kH, kL, kP>>,
      <<kAll, kH, kAll>>, <<kP, kH, kP>> }

\* what a validity check leaves in last: the pairing asked about and the answer
CheckedModel(kind_a, relationship_kind, kind_b, ok) ==
    [op |-> "check_model", ok |-> ok, id |-> relationship_kind, date |-> 0,
     res |-> [found |-> ok, props |-> <<kind_a, kind_b>>]]

check_relationship_model(kind_a, relationship_kind, kind_b) ==
    /\ last' = CheckedModel(kind_a, relationship_kind, kind_b,
                   _is_valid_relationship_model(data_model, kind_a, relationship_kind, kind_b, <<>>))
    /\ UNCHANGED <<documents, redis, index, tree, ids, nodes, states, calls, data_model, rels>>

ModelCreateStep == \E c \in RelKindCalls : create_relationship_kind(c[1], c[2], c[3])

ModelDeleteStep == \E c \in RelKindCalls : delete_relationship_kind(c[1], c[2], c[3])

ModelCheckStep ==
    \E kind_a \in {kP, kH}, relationship_kind \in {kL, kH, kP}, kind_b \in {kP, kH} :
        check_relationship_model(kind_a, relationship_kind, kind_b)

NextRelKinds ==
    \/ ModelCreateStep
    \/ ModelDeleteStep
    \/ ModelCheckStep

SpecRelKinds == Init /\ [][NextRelKinds]_vars

(***************************************************************************)
(* kg_api: the module-level calls of the package before it was renamed.    *)
(* They keep their own id-index file, kinds tree and graph, held in the    *)
(* same variables; SpecApi runs these calls alone.                         *)
(***************************************************************************)
kId == <<"I", "d">>

LowerUpper ==
    { <<"a", "A">>, <<"b", "B">>, <<"d", "D">>, <<"e", "E">>, <<"h", "H">>, <<"i", "I">>,
      <<"k", "K">>, <<"l", "L">>, <<"n", "N">>, <<"p", "P">>, <<"t", "T">> }

upper(c) == IF \E p \in LowerUpper : p[1] = c THEN (CHOOSE p \in LowerUpper : p[1] = c)[2] ELSE c

lower(c) == IF \E p \in LowerUpper : p[2] = c THEN (CHOOSE p \in LowerUpper : p[2] = c)[1] ELSE c

\* str.capitalize: the first character in upper case, the others in lower case
capitalize(s) == [i \in DOMAIN s |-> IF i = 1 THEN upper(s[i]) ELSE lower(s[i])]

is_identical_id(file, id_) == id_ \notin { strip(file[i]) : i \in DOMAIN file }

store_id(file, id_) == Append(file, id_)

\* the tree create_kind starts from when the pickle does not exist
KindTree == [k \in {KIND} |-> [parent |-> KIND, properties |-> EmptyDict]]

\* ontology.create_kind: the pickle after the call
create_kind(t, kind, parent) ==
    LET k == capitalize(kind)
        p == capitalize(parent)
        start_tree == IF t = NoTree THEN KindTree ELSE t
        with_parent == IF p \in DOMAIN start_tree THEN start_tree
                       ELSE AddKind(start_tree, p, KIND, EmptyDict)
    IN  IF k \notin DOMAIN with_parent THEN AddKind(with_parent, k, p, EmptyDict)
        ELSE IF p \in DOMAIN start_tree THEN t
        ELSE with_parent

\* ontology.get_descendant_kinds: the tags of tree.children(kind)
get_descendant_kinds(t, kind) ==
    IF t = NoTree \/ kind \notin DOMAIN t THEN {}
    ELSE { k \in DOMAIN t : t[k].parent = kind /\ k # kind }

\* the slot of a node that DETACH DELETE has removed
Gone == [Id |-> <<>>, kind |-> <<>>]

\* the properties of an entity node: the immutable ones given to graph.versioner.init
EntityProperties(ns, n) == Put(EmptyDict, kId, ns[n].Id)

\* MATCH (a {k: $k_a, ...}): the keys are sanitized, the values are parameters
match_node_query(ns, properties_filter) ==
    LET f == sanitize_dict_keys(properties_filter)
    IN  { n \in DOMAIN ns :
            /\ ns[n] # Gone
            /\ \A k \in DOMAIN f :
                  k \in DOMAIN EntityProperties(ns, n) /\ EntityProperties(ns, n)[k] = f[k] }

\* WHERE 'k1' in labels(a) OR 'k2' in labels(a) ...
where_entity_kind_in_list_query(ns, n, kinds) == \E k \in kinds : sanitize_id(k) = ns[n].kind

\* kg_api search_for_entities: the rows, no more than LIMIT of them
kg_api_search_for_entities(t, ns, kind, properties_filter) ==
    LET descendant_kinds == get_descendant_kinds(t, kind) \cup {kind}
        rows == { n \in match_node_query(ns, properties_filter) :
                    where_entity_kind_in_list_query(ns, n, descendant_kinds) }
    IN  IF Cardinality(rows) <= limit THEN rows
        ELSE CHOOSE part \in SUBSET rows : Cardinality(part) = limit

\* kg_api create_entity: [ok, ids, nodes, states, tree]
kg_api_create_entity_result(t, file, ns, sts, kind, id_, state_properties, create_date, parent_kind) ==
    LET made == VersionerInit(ns, sts, sanitize_alphanumeric(kind), id_,
                              sanitize_dict_keys(state_properties), create_date)
    IN  IF is_identical_id(file, id_)
        THEN [ok |-> TRUE, ids |-> store_id(file, id_), nodes |-> made.nodes,
              states |-> made.states, tree |-> create_kind(t, kind, parent_kind)]
        ELSE [ok |-> FALSE, ids |-> file, nodes |-> ns, states |-> sts, tree |-> t]

\* kg_api create_or_update_properties_of_entities: [ok, states]
kg_api_update_result(ns, sts, list_of_ids, plist, change_date) ==
    LET rows == { n \in _get_entity_nodes(ns, list_of_ids) : ns[n] # Gone }
    IN  [ok |-> rows # {},
         states |-> VersionerPatchAll(sts, rows, sanitize_dict_keys(plist), change_date)]

\* DETACH DELETE a
DetachDelete(ns, rows) == [n \in DOMAIN ns |-> IF n \in rows THEN Gone ELSE ns[n]]

\* kg_api delete_entity: [ok, nodes, states]
kg_api_delete_entity_result(t, ns, sts, id_, completely, deletion_date) ==
    LET properties_filter == << <<kId, id_>> >>
    IN  IF kg_api_search_for_entities(t, ns, <<>>, properties_filter) = {}
        THEN [ok |-> FALSE, nodes |-> ns, states |-> sts]
        ELSE IF completely
        THEN [ok |-> TRUE, nodes |-> DetachDelete(ns, match_node_query(ns, properties_filter)),
              states |-> sts]
        ELSE LET r == kg_api_update_result(ns, sts, <<id_>>, << <<DELETED, "bT">> >>,
                                           deletion_date)
             IN  [ok |-> Cardinality(_get_entity_nodes(ns, <<id_>>)) = 1,
                  nodes |-> ns, states |-> r.states]

kg_api_create_entity(kind, id_, state_properties, create_date, parent_kind) ==
    LET r == kg_api_create_entity_result(tree, ids, nodes, states, kind, id_, state_properties,
                                         create_date, parent_kind)
    IN  /\ tree' = r.tree
        /\ ids' = r.ids
        /\ nodes' = r.nodes
        /\ states' = r.states
        /\ last' = Wrote("kg_api_create_entity", r.ok)
        /\ UNCHANGED <<documents, redis, index, calls, data_model, rels>>

kg_api_create_or_update_properties_of_entities(list_of_ids, plist, change_date) ==
    LET r == kg_api_update_result(nodes, states, list_of_ids, plist, change_date)
    IN  /\ states' = r.states
        /\ last' = Wrote("kg_api_create_or_update_properties", r.ok)
        /\ UNCHANGED <<documents, redis, index, tree, ids, nodes, calls, data_model, rels>>

kg_api_delete_entity(id_, completely, deletion_date) ==
    LET r == kg_api_delete_entity_result(tree, nodes, states, id_, completely, deletion_date)
    IN  /\ nodes' = r.nodes
        /\ states' = r.states
        /\ last' = Wrote(IF completely THEN "kg_api_delete_entity_completely"
                          ELSE "kg_api_delete_entity", r.ok)
        /\ UNCHANGED <<documents, redis, index, tree, ids, calls, data_model, rels>>

ApiIds == {idA, idB, idSpA}

ApiKinds == {kP, kH}

ApiProps == { << <<kL, "s1">> >>, << <<kL, "s2">> >> }

ApiCreateStep ==
    \E kind \in ApiKinds, id_ \in ApiIds, state_properties \in ApiProps :
        kg_api_create_entity(kind, id_, state_properties, 0, KIND) /\ HasRoom(nodes', states')

ApiUpdateStep ==
    \E id_ \in ApiIds, plist \in ApiProps :
        kg_api_create_or_update_properties_of_entities(<<id_>>, plist, 0)
            /\ HasRoom(nodes', states')

ApiDeleteStep ==
    \E id_ \in ApiIds, completely \in BOOLEAN :
        kg_api_delete_entity(id_, completely, 0) /\ HasRoom(nodes', states')

NextApi ==
    \/ ApiCreateStep
    \/ ApiUpdateStep
    \/ ApiDeleteStep

SpecApi == Init /\ [][NextApi]_vars

(***************************************************************************)
(* connector/connect_to_zu.py: a batch of records is written to the graph. *)
(* A record has the fields the code reads: Id, Kind, Created, TLChange,    *)
(* SemanticAction and Related, the list of its relationships.              *)
(***************************************************************************)
SemanticAction == <<"S", "e", "m", "a", "n", "t", "i", "c", "A", "c", "t", "i", "o", "n">>

TLChange == <<"T", "L", "C", "h", "a", "n", "g", "e">>

\* "ZetUniverse.Kinds.Topic", one of the kinds that are not written
ZetUniverse_Kinds_Topic == <<"T", "o", "p", "i", "c">>

SkippedKinds == {ZetUniverse_Kinds_Topic}

\* the store a batch is written to, with the ids seen, the calls made and whether
\* a call has raised
Store ==
    [tree |-> tree, ids |-> ids, nodes |-> nodes, states |-> states,
     data_model |-> data_model, rels |-> rels, added_ids |-> {}, log |-> <<>>, ok |-> TRUE]

\* the records by TLChange, records of one TLChange in their order of arrival
RECURSIVE ByTLChange(_)
ByTLChange(records) ==
    IF records = <<>> THEN <<>>
    ELSE LET n == Len(records)
             rest == ByTLChange(SubSeq(records, 1, n - 1))
             before == SelectSeq(rest, LAMBDA r : TickOf[r.TLChange] <= TickOf[records[n].TLChange])
             after == SelectSeq(rest, LAMBDA r : TickOf[r.TLChange] > TickOf[records[n].TLChange])
         IN  before \o <<records[n]>> \o after

\* the records in their order of arrival
unsorted(records) == records

\* sorted(nodes, key=lambda item: item["TLChange"])
sorted(records) == ByTLChange(records)

\* the mutable properties of a record, as the lists the calls are given
Mutable(node) ==
    << <<SemanticAction, node.SemanticAction>>, <<TLChange, node.TLChange>> >>

\* [type(value) for value in mutable.values()], paired with the keys
PropertyTypes(plist) == [i \in DOMAIN plist |-> <<plist[i][1], PyType(plist[i][2])>>]

\* the ids of the entities in the store
search_for_entities_ids(ns) == { ns[n].Id : n \in DOMAIN ns }

\* get_current_state: the State that is CURRENT for the entity
get_current_state(ns, sts, id_) == get_properties_of_entity(ns, sts, id_)

\* neo4j2datetime and replace(microsecond=0): the time to the second
neo4j2datetime(date_) == TickOf[date_] - (TickOf[date_] % TicksPerSecond)

\* FALSE when the record has the SemanticAction and the TLChange of the current State
check_updates_novelty(ns, sts, id_, updates) ==
    LET current_state == get_current_state(ns, sts, id_)
    IN  ~ ( /\ current_state.found
            /\ current_state.props[SemanticAction] = updates.SemanticAction
            /\ neo4j2datetime(current_state.props[TLChange]) = neo4j2datetime(updates.TLChange) )

Called(op, id, date) == [op |-> op, id |-> id, date |-> date]

\* the body of the loop over the sorted records
insert_node(g, node) ==
    IF ~g.ok \/ node.Kind \in SkippedKinds THEN g
    ELSE IF node.Id \notin g.added_ids
    THEN LET k == create_entity_kind_result(g.tree, node.Kind, KIND,
                                            PropertyTypes(Mutable(node)))
             e == create_entity_result(k.tree, g.ids, g.nodes, g.states, node.Kind, node.Id,
                                       Mutable(node), node.Created)
         IN  IF ~k.ok THEN [g EXCEPT !.tree = k.tree, !.ok = FALSE]
             ELSE IF ~e.ok THEN [g EXCEPT !.tree = k.tree, !.ok = FALSE]
             ELSE [g EXCEPT !.tree = k.tree, !.ids = e.ids, !.nodes = e.nodes,
                            !.states = e.states, !.added_ids = @ \cup {node.Id},
                            !.log = Append(@, Called("create_entity", node.Id,
                                                     TickOf[node.TLChange]))]
    ELSE IF check_updates_novelty(g.nodes, g.states, node.Id, node)
    THEN LET u == update_result(g.tree, g.nodes, g.states, <<node.Id>>, Mutable(node),
                                TickOf[node.TLChange])
         IN  IF ~u.ok THEN [g EXCEPT !.ok = FALSE]
             ELSE [g EXCEPT !.states = u.states, !.rels = CopyRels(g.rels, g.states, u.states),
                            !.log = Append(@, Called("create_or_update_properties_of_entity",
                                                     node.Id, TickOf[node.TLChange]))]
    ELSE g

RECURSIVE insert_nodes(_, _)
insert_nodes(g, records) ==
    IF records = <<>> THEN g ELSE insert_nodes(insert_node(g, Head(records)), Tail(records))

\* one entry of Related of the record with the given Id
insert_relationship(g, id, relationship_dict, now) ==
    LET relationship_type == relationship_dict.Relation
        id_from == IF relationship_dict.Direction THEN id ELSE relationship_dict.EntityId
        id_to == IF relationship_dict.Direction THEN relationship_dict.EntityId ELSE id
        entity_a == _get_entity_nodes(g.nodes, <<id_from>>)
        entity_b == _get_entity_nodes(g.nodes, <<id_to>>)
    IN  IF ~g.ok THEN g
        ELSE IF search_for_relationships(g.nodes, g.states, g.rels, relationship_type,
                                         id_from, id_to, FALSE) # {}
        THEN g
        ELSE IF entity_a = {} \/ entity_b = {} THEN g
        ELSE IF Cardinality(entity_a) > 1 \/ Cardinality(entity_b) > 1
        THEN [g EXCEPT !.ok = FALSE]
        ELSE LET na == CHOOSE n \in entity_a : TRUE
                 nb == CHOOSE n \in entity_b : TRUE
                 m == create_relationship_kind_result(g.data_model, g.nodes[na].kind,
                                                      relationship_type, g.nodes[nb].kind)
                 r == create_relationship_result(m, g.nodes, g.states, g.rels, na, nb, id_from,
                                                 relationship_type, id_to, <<>>, now)
             IN  IF ~r.ok THEN [g EXCEPT !.data_model = m, !.ok = FALSE]
                 ELSE [g EXCEPT !.data_model = m, !.states = r.states, !.rels = r.rels,
                                !.log = Append(@, Called("create_relationship", id_from, now))]

RECURSIVE insert_related(_, _, _, _)
insert_related(g, id, related, now) ==
    IF related = <<>> THEN g
    ELSE insert_related(insert_relationship(g, id, Head(related), now), id, Tail(related), now)

\* the loop over nodes2, the records in their order of arrival
RECURSIVE insert_relationships(_, _, _)
insert_relationships(g, nodes2, now) ==
    IF nodes2 = <<>> THEN g
    ELSE insert_relationships(insert_related(g, Head(nodes2).Id, Head(nodes2).Related, now),
                              Tail(nodes2), now)

\* insert_into_kg: the store after the call
insert_into_kg_result(g, records, now) ==
    LET seen == [g EXCEPT !.added_ids = search_for_entities_ids(g.nodes)]
        written == insert_nodes(seen, sorted(records))
    IN  insert_relationships(written, records, now)

\* what insert_into_kg leaves in last: the batch, the calls it made and whether it
\* returned without raising
Inserted(records, now, r) ==
    [op |-> "insert_into_kg", ok |-> r.ok, id |-> <<>>, date |-> now,
     res |-> [found |-> r.ok, props |-> r.log, batch |-> records]]

insert_into_kg(records, now) ==
    LET r == insert_into_kg_result(Store, records, now)
    IN  /\ tree' = r.tree
        /\ ids' = r.ids
        /\ nodes' = r.nodes
        /\ states' = r.states
        /\ data_model' = r.data_model
        /\ rels' = r.rels
        /\ last' = Inserted(records, now, r)
        /\ UNCHANGED <<documents, redis, index, calls>>

(***************************************************************************)
(* SpecIngest: batches of records of two entities and of a kind that is    *)
(* not written, applied one after the other in any order.                  *)
(***************************************************************************)
idT == <<"t">>

Linked == << [Relation |-> kL, EntityId |-> idB, Direction |-> TRUE] >>

LinkedBack == << [Relation |-> kL, EntityId |-> idA, Direction |-> FALSE] >>

ToTopic == << [Relation |-> kL, EntityId |-> idT, Direction |-> TRUE] >>

Record(id, kind, tl, action, related) ==
    [Id |-> id, Kind |-> kind, Created |-> 0, TLChange |-> tl, SemanticAction |-> action,
     Related |-> related]

rA0 == Record(idA, kP, "t0", "i1", Linked)
rA2 == Record(idA, kP, "t2", "i2", <<>>)
rB1 == Record(idB, kH, "t1", "i1", <<>>)
rB2 == Record(idB, kH, "t2", "i1", LinkedBack)
rT1 == Record(idT, ZetUniverse_Kinds_Topic, "t1", "i1", <<>>)
rA1 == Record(idA, kP, "t1", "i1", ToTopic)

Batches ==
    { <<rA0>>, <<rB1>>, <<rA2>>, <<rA0, rB1>>, <<rB1, rA0>>, <<rA2, rA0>>, <<rB2, rA0>>,
      <<rA2, rB1, rA0>>, <<rT1, rA1>>, <<rA1, rA0>> }

\* the wall clock when the relationships of a batch are created
Nows == {MaxDate}

IngestStep ==
    \E records \in Batches, now \in Nows :
        insert_into_kg(records, now) /\ RelRoom(nodes', states', rels')

NextIngest == IngestStep

SpecIngest == Init /\ [][NextIngest]_vars

(***************************************************************************)
(* querymaker.py: what the builders put into their fragments.  A fragment  *)
(* is given by the strings at its interpolation points: names, the         *)
(* variable names, kinds, property keys and relationship types, and ids,   *)
(* the literals of an IN list.                                             *)
(***************************************************************************)
Fragment(names, id_literals) == [names |-> names, ids |-> id_literals]

SanitizedKeys(keys) == [i \in DOMAIN keys |-> sanitize_alphanumeric(keys[i])]

\* MATCH (var_name: kind {k: $k_var_name, ...})
match_node_query_fragment(var_name, kind, keys) ==
    Fragment(<<sanitize_alphanumeric(var_name)>>
                 \o (IF kind # <<>> THEN <<sanitize_alphanumeric(kind)>> ELSE <<>>)
                 \o SanitizedKeys(keys),
             <<>>)

\* CALL graph.versioner.relationship.create(var_name_a, var_name_b, kind, {k: $new_k})
create_relationship_query_fragment(var_name_a, relationship_kind, keys, var_name_b) ==
    Fragment(<<sanitize_alphanumeric(var_name_a), sanitize_alphanumeric(var_name_b),
               sanitize_alphanumeric(relationship_kind)>> \o SanitizedKeys(keys),
             <<>>)

\* MATCH (var_name_a)-[var_name_r : kind {k: $k_var_name_r}]->(var_name_b)
match_relationship_cypher_query_fragment(var_name_a, var_name_r, relationship_kind, keys, var_name_b) ==
    Fragment(<<var_name_a, sanitize_alphanumeric(var_name_r)>>
                 \o (IF relationship_kind # <<>> THEN <<sanitize_alphanumeric(relationship_kind)>>
                     ELSE <<>>)
                 \o SanitizedKeys(keys)
                 \o <<var_name_b>>,
             <<>>)

\* WHERE var_name.property_kind IN [values]
where_property_value_in_list_query_fragment(var_name, property_kind, values) ==
    Fragment(<<sanitize_alphanumeric(var_name), sanitize_alphanumeric(property_kind)>>,
             [i \in DOMAIN values |-> sanitize_id(values[i])])

\* WHERE 'kind' in labels(var_name) OR ...
where_entity_kind_in_list_query_fragment(var_name, kinds) ==
    Fragment([i \in DOMAIN kinds |-> sanitize_id(kinds[i])] \o <<sanitize_alphanumeric(var_name)>>,
             <<>>)

\* what a builder leaves in last: its name and its fragment
Built(builder, fragment) ==
    [op |-> "build", ok |-> TRUE, id |-> <<>>, date |-> 0,
     res |-> [found |-> TRUE, props |-> fragment, builder |-> builder]]

build_match_node_query(var_name, kind, keys) ==
    /\ last' = Built("match_node_query", match_node_query_fragment(var_name, kind, keys))
    /\ UNCHANGED <<documents, redis, index, tree, ids, nodes, states, calls, data_model, rels>>

build_create_relationship_query(var_name_a, relationship_kind, keys, var_name_b) ==
    /\ last' = Built("create_relationship_query",
                     create_relationship_query_fragment(var_name_a, relationship_kind, keys,
                                                        var_name_b))
    /\ UNCHANGED <<documents, redis, index, tree, ids, nodes, states, calls, data_model, rels>>

build_match_relationship_cypher_query(var_name_a, var_name_r, relationship_kind, keys, var_name_b) ==
    /\ last' = Built("match_relationship_cypher_query",
                     match_relationship_cypher_query_fragment(var_name_a, var_name_r,
                                                              relationship_kind, keys, var_name_b))
    /\ UNCHANGED <<documents, redis, index, tree, ids, nodes, states, calls, data_model, rels>>

build_where_property_value_in_list_query(var_name, property_kind, values) ==
    /\ last' = Built("where_property_value_in_list_query",
                     where_property_value_in_list_query_fragment(var_name, property_kind, values))
    /\ UNCHANGED <<documents, redis, index, tree, ids, nodes, states, calls, data_model, rels>>

build_where_entity_kind_in_list_query(var_name, kinds) ==
    /\ last' = Built("where_entity_kind_in_list_query",
                     where_entity_kind_in_list_query_fragment(var_name, kinds))
    /\ UNCHANGED <<documents, redis, index, tree, ids, nodes, states, calls, data_model, rels>>

(***************************************************************************)
(* SpecQuery: the builders called with any strings.                        *)
(***************************************************************************)
idAHyphen == <<"a", "-">>

idAUnderscore == <<"a", "_">>

RawStrings == {idA, idASlash, idAHyphen, idAUnderscore}

RawLists == { <<>>, <<kH>>, <<kHx>> } \cup { <<x>> : x \in RawStrings }

MatchNodeStep ==
    \E var_name \in RawStrings, kind \in RawStrings \cup {<<>>}, keys \in RawLists :
        build_match_node_query(var_name, kind, keys)

CreateRelationshipQueryStep ==
    \E var_name_a \in RawStrings, relationship_kind \in RawStrings, var_name_b \in RawStrings :
        build_create_relationship_query(var_name_a, relationship_kind, <<kHx>>, var_name_b)

MatchRelationshipStep ==
    \E var_name_a \in RawStrings, var_name_r \in RawStrings,
       relationship_kind \in {<<>>, kL, kHx}, var_name_b \in RawStrings :
        build_match_relationship_cypher_query(var_name_a, var_name_r, relationship_kind,
                                              <<kHx>>, var_name_b)

WhereInListStep ==
    \E var_name \in RawStrings, property_kind \in RawStrings, values \in RawLists :
        build_where_property_value_in_list_query(var_name, property_kind, values)

WhereKindInListStep ==
    \E var_name \in RawStrings, kinds \in RawLists :
        build_where_entity_kind_in_list_query(var_name, kinds)

NextQuery ==
    \/ MatchNodeStep
    \/ CreateRelationshipQueryStep
    \/ MatchRelationshipStep
    \/ WhereInListStep
    \/ WhereKindInListStep

SpecQuery == Init /\ [][NextQuery]_vars

(***************************************************************************)
(* index.py: the inverted index, a full-text table with the columns title, *)
(* entity_id, tag and user_id.                                             *)
(***************************************************************************)
\* str.replace(old, new), old one character
RECURSIVE replace(_, _, _)
replace(str, old, new) ==
    IF str = <<>> THEN <<>>
    ELSE (IF Head(str) = old THEN new ELSE <<Head(str)>>) \o replace(Tail(str), old, new)

\* replace("/", "slash").replace("-", "hyphen")
escape(str) ==
    replace(replace(str, "/", <<"s", "l", "a", "s", "h">>), "-", <<"h", "y", "p", "h", "e", "n">>)

\* the token of a word of one or two letters under 'porter ascii': its lower case
token(word) == [i \in DOMAIN word |-> lower(word[i])]

\* the rowids of SELECT * FROM inverted_index WHERE inverted_index MATCH
\* 'title:entity_substr AND tag:tag AND user_id:user_id'
match_index(rows, entity_substr, tag, user_id) ==
    { i \in DOMAIN rows :
        /\ token(rows[i].title) = token(entity_substr)
        /\ rows[i].tag = tag
        /\ token(rows[i].user_id) = token(user_id) }

Row(entity_substr, entity_id, tag, user_id) ==
    [title |-> token(entity_substr), entity_id |-> entity_id, tag |-> tag, user_id |-> user_id]

\* the body of the loop of add_entities: the rows after one entry
add_entity(rows, entity_substr, raw_entity_id, tag, user_id) ==
    LET entity_id == escape(raw_entity_id)
        res == match_index(rows, entity_substr, tag, user_id)
        first == CHOOSE i \in res : \A n \in res : i <= n
    IN  IF res # {} /\ rows[first].tag = "name" /\ rows[first].entity_id = entity_id
           /\ tag = "name"
        THEN Append(SelectSeq(rows, LAMBDA r : ~ (r.entity_id = entity_id /\ r.tag = tag
                                                    /\ r.user_id = user_id)),
                    Row(entity_substr, entity_id, tag, user_id))
        ELSE IF res = {} THEN Append(rows, Row(entity_substr, entity_id, tag, user_id))
        ELSE rows

\* the loop over zip(entity_substr_list, entity_ids_list, tags_list)
RECURSIVE add_entities_result(_, _, _)
add_entities_result(rows, entries, user_id) ==
    IF entries = <<>> THEN rows
    ELSE add_entities_result(add_entity(rows, Head(entries)[1], Head(entries)[2],
                                        Head(entries)[3], user_id),
                             Tail(entries), user_id)

set_active_user_id(user_id) ==
    /\ index' = [index EXCEPT !.user_id = user_id]
    /\ last' = Wrote("set_active_user_id", TRUE)
    /\ UNCHANGED <<documents, redis, tree, ids, nodes, states, calls, data_model, rels>>

\* the assert fails while no user is active
add_entities(entries) ==
    /\ index' = IF index.user_id = None THEN index
                ELSE [index EXCEPT !.rows = add_entities_result(@, entries, escape(index.user_id))]
    /\ last' = Wrote("add_entities", index.user_id # None)
    /\ UNCHANGED <<documents, redis, tree, ids, nodes, states, calls, data_model, rels>>

(***************************************************************************)
(* SpecIndex: entries of two entities added for two users.                 *)
(***************************************************************************)
IndexUsers == { <<"u">>, <<"u", "-">> }

IndexTitles == { <<"a">>, <<"A">>, <<"b">> }

IndexTags == {"name", "abbr"}

IndexEntries ==
    { <<e>> : e \in IndexTitles \X {idA, idASlash} \X IndexTags }
        \cup { << <<idA, idA, "name">>, <<idB, idA, "name">> >> }

SetUserStep == \E user_id \in IndexUsers : set_active_user_id(user_id)

AddEntitiesStep == \E entries \in IndexEntries : add_entities(entries) /\ Len(index'.rows) <= MaxRows

NextIndex ==
    \/ SetUserStep
    \/ AddEntitiesStep

SpecIndex == Init /\ [][NextIndex]_vars

(***************************************************************************)
(* What the claims speak of.                                               *)
(***************************************************************************)
\* the time an entity was created: the start of its first State
CreationDate(n) == states[CHOOSE i \in ChainOf(states, n) : states[i].prev = 0].start

\* the window [startDate, endDate) of a State, endDate null meaning open
WindowContains(st, d) == st.start <= d /\ (st.end = NoDate \/ d < st.end)

\* the States of entity n whose window contains d
ValidOn(n, d) == { i \in ChainOf(states, n) : WindowContains(states[i], d) }

\* C1: for every entity and every time stamp d of the grid at or after its creation,
\* get_entity_by_date(id, d) matches exactly one State, whose window contains d
C1_OneStatePerTimestamp ==
    \A n \in DOMAIN nodes : \A d \in Dates :
        d >= CreationDate(n) =>
            LET rows == get_entities_by_date(nodes, states, <<nodes[n].Id>>, d)
            IN  /\ Cardinality(rows) = 1
                /\ \A i \in rows : WindowContains(states[i], d)

\* C2: after create_entity and create_or_update_properties calls with any change dates,
\* the windows of an entity partition the time from its creation on, every new State
\* closing the window of the one before it at its own start
C2_WindowsPartitionTime ==
    \A n \in DOMAIN nodes :
        /\ \A d \in Dates : d >= CreationDate(n) => Cardinality(ValidOn(n, d)) = 1
        /\ \A i \in ChainOf(states, n) :
              states[i].prev # 0 => states[states[i].prev].end = states[i].start
        /\ Cardinality({ i \in ChainOf(states, n) : states[i].end = NoDate }) = 1

\* C3: a lookup at the change date of an update returns the State that update made,
\* and a lookup before the creation of the entity returns nothing
C3_HalfOpenLookup ==
    last.op = "get_entity_by_date" =>
        /\ \A n \in MatchById(nodes, last.id) : \A i \in ChainOf(states, n) :
              (states[i].prev # 0 /\ states[i].start = last.date
                  /\ WindowContains(states[i], last.date))
                  => last.res = Found(states[i].props)
        /\ (\A n \in MatchById(nodes, last.id) : last.date < CreationDate(n))
              => last.res = NotFound

\* the property keys of a call's list
Keys(plist) == { plist[i][1] : i \in DOMAIN plist }

\* the entity nodes whose Id is the id a call names
Named(id) == MatchById(nodes, id)

\* C4: the chain of an entity never gets shorter; a create_or_update_properties or
\* delete_properties call on the entity that succeeds makes it longer by exactly one,
\* and one that is rejected leaves its length as it was
C4_MonotonicHistory ==
    [][ /\ \A n \in DOMAIN nodes : ChainLen(states', n) >= ChainLen(states, n)
        /\ \A id \in IdPool : \A plist \in PropLists :
              create_or_update_properties_of_entities(<<id>>, plist, 0) =>
                  \A n \in Named(id) :
                      ChainLen(states', n) = ChainLen(states, n) + (IF last'.ok THEN 1 ELSE 0)
        /\ \A id \in IdPool : \A keys \in KeyLists :
              delete_properties_from_entity(id, keys, 0) =>
                  \A n \in Named(id) :
                      ChainLen(states', n) = ChainLen(states, n) + (IF last'.ok THEN 1 ELSE 0)
      ]_vars

\* after the step, entity n has exactly one CURRENT State, the step made it, and the
\* State that was CURRENT before is CURRENT no more
FreshCurrent(n) ==
    /\ Cardinality(CurrentStates(states', n)) = 1
    /\ \A i \in CurrentStates(states', n) : i > Len(states)
    /\ \A i \in CurrentStates(states, n) : ~states'[i].current

\* C5: after a successful create_entity, create_or_update_properties, delete_properties
\* or soft delete of an entity, exactly one of its States is CURRENT, it is the one the
\* call made, and the State that was CURRENT before is no longer CURRENT
C5_OneCurrentState ==
    [][ /\ \A kind \in KindPool : \A id \in IdPool : \A plist \in PropLists :
              (create_entity(kind, id, plist, 0) /\ last'.ok) =>
                  /\ Len(nodes') = Len(nodes) + 1
                  /\ nodes'[Len(nodes')].Id = id
                  /\ FreshCurrent(Len(nodes'))
        /\ \A id \in IdPool : \A plist \in PropLists :
              (create_or_update_properties_of_entities(<<id>>, plist, 0) /\ last'.ok) =>
                  \A n \in Named(id) : FreshCurrent(n)
        /\ \A id \in IdPool : \A keys \in KeyLists :
              (delete_properties_from_entity(id, keys, 0) /\ last'.ok) =>
                  \A n \in Named(id) : FreshCurrent(n)
        /\ \A id \in IdPool :
              (delete_entity(id, 0) /\ last'.ok) => \A n \in Named(id) : FreshCurrent(n)
      ]_vars

\* C6: get_current_state right after a successful create_entity(kind, id, props)
\* returns props and _deleted = false, and nothing else
C6_CreateRoundTrip ==
    [][ \A kind \in KindPool : \A id \in IdPool : \A plist \in PropLists :
            (create_entity(kind, id, plist, 0) /\ last'.ok) =>
                get_properties_of_entity(nodes', states', id)
                    = Found(Put(DictOf(plist), DELETED, "bF"))
      ]_vars

\* some key of the list is not declared for the kind, itself or by inheritance
Undeclared(plist, kind) == \E k \in Keys(plist) : k \notin DOMAIN get_entity_kind(tree, kind)

\* C7: create_or_update_properties with a key that is not declared for the kind of the
\* entity fails and creates no State
C7_OntologyGate ==
    [][ \A id \in IdPool : \A plist \in PropLists :
            ( /\ create_or_update_properties_of_entities(<<id>>, plist, 0)
              /\ \E n \in Named(id) : Undeclared(plist, nodes[n].kind) )
            => (~last'.ok /\ states' = states)
      ]_vars

\* the kind of entity n rejects a key or the type of a value of the list
Rejects(n, plist) == ~_check_entity_kind_properties_validity(tree, plist, nodes[n].kind)

\* C8: a batch call with an unknown id, or with an entity whose kind rejects a key or
\* a value, gives no entity a new State
C8_BatchAllOrNothing ==
    [][ \A idl \in IdLists : \A plist \in PropLists :
            ( /\ create_or_update_properties_of_entities(idl, plist, 0)
              /\ \E i \in DOMAIN idl : Named(idl[i]) = {} \/ \E n \in Named(idl[i]) : Rejects(n, plist) )
            => states' = states
      ]_vars

\* C9: create_entity with an id that is recorded in the id-index fails and writes
\* nothing, so that no id ever names two entities
C9_UniqueIds ==
    [][ /\ \A kind \in KindPool : \A id \in IdPool : \A plist \in PropLists :
              ( /\ create_entity(kind, id, plist, 0)
                /\ \E i \in DOMAIN ids : ids[i] = id )
              => (~last'.ok /\ UNCHANGED <<index, ids, nodes, states>>)
        /\ \A id \in IdPool : Cardinality(MatchById(nodes', id)) <= 1
      ]_vars

\* C10: of the create_entity calls made at once with one id at most one returns, and
\* the graph holds at most one entity with that id
C10_OneCreationWins ==
    /\ \A c \in Callers : \A e \in Callers :
          (c # e /\ calls[c].pc = "returned" /\ calls[e].pc = "returned")
              => calls[c].id # calls[e].id
    /\ \A id \in RaceIds : Cardinality(MatchById(nodes, id)) <= 1

\* the edges a search of kind L from id_a to id_b returns after the step
FoundAfter(id_a, id_b, search_all_states) ==
    search_for_relationships(nodes', states', rels', kL, id_a, id_b, search_all_states)

\* the edges the same search returns before the step
FoundBefore(id_a, id_b, search_all_states) ==
    search_for_relationships(nodes, states, rels, kL, id_a, id_b, search_all_states)

\* C12: the default search returns only relationships that leave a CURRENT State, and
\* after delete_relationship(id_a, kind, id_b) has removed a relationship the default
\* search for it returns nothing while the search of all states still returns it
C12_CurrentOrAllStates ==
    [][ /\ \A id_a \in RelIds, id_b \in RelIds :
              /\ \A e \in FoundAfter(id_a, id_b, FALSE) : states'[rels'[e].from].current
              /\ FoundAfter(id_a, id_b, FALSE) \subseteq FoundAfter(id_a, id_b, TRUE)
        /\ \A id_a \in RelIds, id_b \in RelIds :
              (delete_relationship(id_a, kL, id_b, 0) /\ last'.ok) =>
                  /\ FoundAfter(id_a, id_b, FALSE) = {}
                  /\ FoundAfter(id_a, id_b, TRUE) # {}
      ]_vars

\* a relationship has been removed by delete_relationship: it leaves an earlier State of
\* its entity and not the CURRENT one
C12_Witness ==
    /\ last.op = "delete_relationship"
    /\ last.ok
    /\ \E id_a \in RelIds, id_b \in RelIds :
          /\ search_for_relationships(nodes, states, rels, kL, id_a, id_b, FALSE) = {}
          /\ search_for_relationships(nodes, states, rels, kL, id_a, id_b, TRUE) # {}

\* C13: every relationship that the search of all states returns before a
\* create_or_update_properties call is returned by it after the call
C13_RelationshipSurvivesUpdates ==
    [][ \A id \in RelIds, plist \in RelUpdates :
            create_or_update_properties_of_entities(<<id>>, plist, 0) =>
                \A id_a \in RelIds, id_b \in RelIds :
                    FoundBefore(id_a, id_b, TRUE) \subseteq FoundAfter(id_a, id_b, TRUE)
      ]_vars

\* the States that came to the chain of their entity after State i
LaterStates(i) == { j \in ChainOf(states, states[i].ent) : j > i }

\* two successful updates have followed the creation of a relationship, which the search
\* of all states returns
C13_Witness ==
    /\ last.op = "create_or_update_properties"
    /\ last.ok
    /\ \E e \in DOMAIN rels :
          /\ Cardinality(LaterStates(rels[e].from)) >= 2
          /\ e \in search_for_relationships(nodes, states, rels, kL,
                       nodes[states[rels[e].from].ent].Id, nodes[rels[e].to].Id, TRUE)

\* the edges of kind L from node a to node b that leave the CURRENT State of a
CurrentEdges(sts, rs, a, b) ==
    { e \in DOMAIN rs : /\ rs[e].kind = kL
                        /\ rs[e].to = b
                        /\ sts[rs[e].from].ent = a
                        /\ sts[rs[e].from].current }

C15_RelationshipGate ==
    [][ /\ \A id_a \in RelIds, id_b \in RelIds, plist \in RelProps :
              ( /\ create_relationship(id_a, kL, id_b, plist, 0)
                /\ \/ Named(id_a) = {}
                   \/ Named(id_b) = {}
                   \/ \E a \in Named(id_a), b \in Named(id_b) :
                         ~_check_relationship_validity(data_model, nodes, a, kL, b, plist) )
              => (~last'.ok /\ UNCHANGED <<index, states, rels>>)
        /\ \A e \in DOMAIN rels' :
              /\ kL \in DOMAIN data_model'
              /\ <<nodes'[states'[rels'[e].from].ent].kind, nodes'[rels'[e].to].kind>>
                    \in Pairs(data_model'[kL])
      ]_vars

\* the keys a delete_properties call names
KeySet(keys) == { keys[i] : i \in DOMAIN keys }

\* C16: a delete_properties call that names keys which the CURRENT State of the entity all
\* has succeeds and leaves a new CURRENT State whose property map has none of these keys
\* and has every other key with the value it had
C16_DeletedKeysAbsent ==
    [][ \A id \in IdPool, keys \in KeyLists \ {<<>>}, d \in Dates :
            ( /\ delete_properties_from_entity(id, keys, d)
              /\ Cardinality(CurrentStateRows(nodes, states, id)) = 1
              /\ \A c \in CurrentStateRows(nodes, states, id) :
                    KeySet(keys) \subseteq DOMAIN states[c].props )
            => /\ last'.ok
               /\ Len(states') = Len(states) + 1
               /\ CurrentStateRows(nodes, states', id) = {Len(states')}
               /\ \A c \in CurrentStateRows(nodes, states, id) :
                     /\ DOMAIN states'[Len(states')].props = DOMAIN states[c].props \ KeySet(keys)
                     /\ \A k \in DOMAIN states'[Len(states')].props :
                           states'[Len(states')].props[k] = states[c].props[k]
      ]_vars

\* a delete_properties call has succeeded: the CURRENT State lacks property h, which the
\* State before it has, and has kept _deleted
C16_Witness ==
    /\ last.op = "delete_properties"
    /\ last.ok
    /\ \E c \in DOMAIN states :
          /\ states[c].current
          /\ states[c].prev # 0
          /\ kH \in DOMAIN states[states[c].prev].props
          /\ kH \notin DOMAIN states[c].props
          /\ DELETED \in DOMAIN states[c].props

\* the property map with _deleted set to True
MarkedDeleted(props) == [k \in (DOMAIN props) \cup {DELETED} |-> IF k = DELETED THEN "bT" ELSE props[k]]

\* C17: delete_entity on the id of an entity succeeds and adds one State, the CURRENT State
\* of that entity, whose properties are those of the State before it with _deleted True;
\* the nodes, the States there were and the relationships there were stay as they are;
\* delete_entity on an id no entity has fails and changes nothing
C17_SoftDelete ==
    [][ \A id \in RelIds :
            delete_entity(id, 0) =>
                IF Named(id) = {}
                THEN ~last'.ok /\ UNCHANGED <<index, nodes, states, rels>>
                ELSE /\ last'.ok
                     /\ nodes' = nodes
                     /\ Len(states') = Len(states) + 1
                     /\ \A i \in DOMAIN states :
                           /\ states'[i].props = states[i].props
                           /\ states'[i].ent = states[i].ent
                     /\ \A e \in DOMAIN rels : rels'[e] = rels[e]
                     /\ \A n \in Named(id) :
                           /\ CurrentStates(states', n) = {Len(states')}
                           /\ \A c \in CurrentStates(states, n) :
                                 states'[Len(states')].props = MarkedDeleted(states[c].props)
      ]_vars

\* the ids that create_entity calls have been given: the lines of the id-index file
Assigned == { ids[i] : i \in DOMAIN ids }

\* C18: a create_entity call with an id that an earlier create_entity call was given fails
\* and creates no entity, whatever has been deleted since, and no two entity nodes have
\* the same id
C18_IdNeverReused ==
    [][ /\ \A kind \in ApiKinds, id_ \in ApiIds, state_properties \in ApiProps :
              (kg_api_create_entity(kind, id_, state_properties, 0, KIND) /\ id_ \in Assigned)
              => (~last'.ok /\ nodes' = nodes)
        /\ \A n \in DOMAIN nodes', m \in DOMAIN nodes' :
              (nodes'[n] # Gone /\ nodes'[n].Id = nodes'[m].Id) => n = m
      ]_vars

\* the entities of a kind whose CURRENT State has the value for property label
Labelled(kind, value) ==
    { n \in DOMAIN nodes :
        /\ nodes[n].kind = kind
        /\ \E c \in CurrentStates(states, n) :
              kL \in DOMAIN states[c].props /\ states[c].props[kL] = value }

\* C19: search_for_entities(kind, {label: value}) returns the entities of the kind whose
\* CURRENT State has that value for label, all of them and no others
C19_SearchByProperty ==
    \A kind \in ApiKinds, value \in {"s1", "s2"} :
        kg_api_search_for_entities(tree, nodes, kind, << <<kL, value>> >>) = Labelled(kind, value)

\* C20: a create_entity_kind call for a new kind whose parent is not in the tree
\* returns without raising and leaves the parent in the saved tree as a child of Kind
\* and the kind in it as a child of the parent
C20_AbsentParentCreated ==
    [][ \A kind \in TreeKinds, parent \in TreeKinds, decl \in TreeDecls :
            ( /\ create_entity_kind(kind, parent, decl)
              /\ kind # parent
              /\ parent \notin DOMAIN _load_ontology_kinds_hierarchy(tree)
              /\ kind \notin DOMAIN _load_ontology_kinds_hierarchy(tree) )
            => /\ last'.ok
               /\ parent \in DOMAIN tree'
               /\ tree'[parent].parent = KIND
               /\ kind \in DOMAIN tree'
               /\ tree'[kind].parent = parent
      ]_vars

\* C21: a create_entity_kind call for a kind that is in the saved tree leaves the saved
\* tree as it was, whatever parent and property declarations it is given
C21_ExistingKindNoOp ==
    [][ \A kind \in TreeKinds, parent \in TreeKinds, decl \in TreeDecls :
            (create_entity_kind(kind, parent, decl) /\ kind \in DOMAIN tree) => tree' = tree
      ]_vars

\* a kind and the kinds below it
SelfAndDescendants(t, kind) == { k \in DOMAIN t : k = kind \/ kind \in Ancestors(t, k) }

\* the names a list of property declarations declares
Declared(decl) == { decl[i][1] : i \in DOMAIN decl }

\* C22: the stored property set of every kind has every property of each of its
\* ancestors, and after create_property_kinds_of_entity_kind on a kind of the tree the
\* properties it was given are in the property set of the kind and of every kind below it
C22_InheritedProperties ==
    [][ /\ \A k \in DOMAIN tree' : \A a \in Ancestors(tree', k) :
              DOMAIN get_entity_kind(tree', a) \subseteq DOMAIN get_entity_kind(tree', k)
        /\ \A kind \in TreeKinds, decl \in TreeDecls :
              (create_property_kinds_of_entity_kind(kind, decl) /\ kind \in DOMAIN tree)
              => \A k \in SelfAndDescendants(tree', kind) :
                    Declared(decl) \subseteq DOMAIN get_entity_kind(tree', k)
      ]_vars

\* C23: once the kinds tree has been saved, it has the kind Kind, which declares the
\* property _deleted of type bool
C23_RootKind ==
    tree # NoTree =>
        /\ KIND \in DOMAIN tree
        /\ DELETED \in DOMAIN tree[KIND].properties
        /\ tree[KIND].properties[DELETED] = "bool"

\* the effective property set of a kind: its own stored properties and those of its
\* ancestors, the kind's own entry first
EffectiveProperties(t, kind) ==
    LET above == { a \in Ancestors(t, kind) : TRUE }
        names == get_entity_kind(t, kind)
        inherited == UNION { DOMAIN get_entity_kind(t, a) : a \in above }
    IN  [x \in (DOMAIN names) \cup inherited |->
            IF x \in DOMAIN names THEN names[x]
            ELSE get_entity_kind(t, CHOOSE a \in above : x \in DOMAIN get_entity_kind(t, a))[x]]

Registered(m, relationship_kind) ==
    IF relationship_kind \in DOMAIN m THEN m[relationship_kind] ELSE <<>>

\* C25: create_relationship_kind appends the triple to the list of its relationship kind
\* when the list has no triple with the same pair of kinds and leaves the table as it
\* was when it has one; no list ever holds two triples with the same pair of kinds
C25_OneTriplePerPair ==
    [][ /\ \A c \in RelKindCalls :
              create_relationship_kind(c[1], c[2], c[3]) =>
                  IF <<c[1], c[3]>> \in Pairs(Registered(data_model, c[2]))
                  THEN data_model' = data_model
                  ELSE /\ Registered(data_model', c[2])
                            = Append(Registered(data_model, c[2]), <<c[1], c[3], EmptyDict>>)
                       /\ \A k \in DOMAIN data_model : k # c[2] => data_model'[k] = data_model[k]
        /\ \A k \in DOMAIN data_model' : \A i \in DOMAIN data_model'[k], n \in DOMAIN data_model'[k] :
              (data_model'[k][i][1] = data_model'[k][n][1] /\ data_model'[k][i][2] = data_model'[k][n][2])
              => i = n
      ]_vars

\* a create_relationship_kind call for a registered pair has returned without saving,
\* under a relationship kind that holds several triples
C25_Witness ==
    /\ last.op = "create_relationship_kind"
    /\ ~last.ok
    /\ \E k \in DOMAIN data_model : Len(data_model[k]) >= 3

\* the wildcard that stands for any entity kind
Matches(model_kind, kind) == model_kind = kind \/ model_kind = kAll

\* C26: the validity check accepts a pairing for a relationship kind exactly when the
\* kind is in the table and one of its triples is the pair itself, (All, kind_b),
\* (kind_a, All) or (All, All)
C26_WildcardPairing ==
    last.op = "check_model" =>
        ( last.ok <=>
            \E t \in DOMAIN Registered(data_model, last.id) :
                /\ Matches(Registered(data_model, last.id)[t][1], last.res.props[1])
                /\ Matches(Registered(data_model, last.id)[t][2], last.res.props[2]) )

\* C27: a batch that has been written is written again without effect: no entity, no
\* State and no relationship is created, also when the batch has several records with
\* different TLChange for one id
C27_ReapplyIsIdempotent ==
    [][ \A records \in Batches, now \in Nows :
            ( /\ last.op = "insert_into_kg"
              /\ last.ok
              /\ last.res.batch = records
              /\ insert_into_kg(records, now) )
            => (nodes' = nodes /\ states' = states /\ rels' = rels)
      ]_vars

\* the calls of a batch that write an entity
NodeCalls == {"create_entity", "create_or_update_properties_of_entity"}

\* C28: the calls of one insert_into_kg that write entities are made in non-decreasing
\* order of the TLChange of their records, and no entity is written after a
\* relationship of the batch has been created
C28_NodesInOrderThenRelationships ==
    last.op = "insert_into_kg" =>
        \A i \in DOMAIN last.res.props, n \in DOMAIN last.res.props :
            i < n =>
                /\ (last.res.props[i].op \in NodeCalls /\ last.res.props[n].op \in NodeCalls)
                      => last.res.props[i].date <= last.res.props[n].date
                /\ last.res.props[i].op = "create_relationship"
                      => last.res.props[n].op = "create_relationship"

\* a batch whose first record has the later TLChange and carries a relationship has
\* written two entities and the relationship
C28_Witness ==
    /\ last.op = "insert_into_kg"
    /\ Len(last.res.batch) >= 2
    /\ TickOf[last.res.batch[1].TLChange] > TickOf[last.res.batch[2].TLChange]
    /\ last.res.batch[1].Related # <<>>
    /\ Len(last.res.props) >= 3
    /\ last.res.props[Len(last.res.props)].op = "create_relationship"

\* the characters of a string
Chars(str) == { str[i] : i \in DOMAIN str }

\* C29: whatever strings a builder is called with, every name in its fragment has only
\* letters, digits and underscores, and every id literal of an IN list only letters,
\* digits, underscores and hyphens
C29_FragmentsAreSanitized ==
    last.op = "build" =>
        /\ \A i \in DOMAIN last.res.props.names :
              Chars(last.res.props.names[i]) \subseteq AlnumChars \cup {"_"}
        /\ \A i \in DOMAIN last.res.props.ids :
              Chars(last.res.props.ids[i]) \subseteq AlnumChars \cup {"_", "-"}

\* C30: the index never holds two rows tagged "name" for one entity id and one user id
C30_OneNameRowPerEntity ==
    \A i \in DOMAIN index.rows, n \in DOMAIN index.rows :
        ( /\ index.rows[i].tag = "name"
          /\ index.rows[n].tag = "name"
          /\ index.rows[i].entity_id = index.rows[n].entity_id
          /\ index.rows[i].user_id = index.rows[n].user_id )
        => i = n

\* the pair of the call is registered under its relationship kind
IsRegistered(c) == <<c[1], c[3]>> \in Pairs(Registered(data_model, c[2]))

\* C31: a caller can tell from the result what happened: create_relationship_kind
\* returns another value for a pair that is registered already than for a pair it
\* registers, and _get_current_state_node another value for an entity without a
\* current State than for an id without an entity
C31_DistinguishableResults ==
    /\ \A c \in RelKindCalls, d \in RelKindCalls :
          (IsRegistered(c) /\ ~IsRegistered(d))
          => create_relationship_kind_return(data_model, c[1], c[2], c[3])
                 # create_relationship_kind_return(data_model, d[1], d[2], d[3])
    /\ \A id \in IdPool, other \in IdPool :
          (Named(id) = {} /\ Named(other) # {} /\ CurrentStateRows(nodes, states, other) = {})
          => _get_current_state_node(nodes, states, id)
                 # _get_current_state_node(nodes, states, other)

(***************************************************************************)
(* graph.py: the properties of a relationship.                             *)
(***************************************************************************)
\* _create_new_state: the patch with no updates on every node that has the id
_create_new_state(ns, sts, rs, id_, create_date) ==
    LET created == VersionerPatchAll(sts, MatchById(ns, id_), EmptyDict, create_date)
    IN  [states |-> created, rels |-> CopyRels(rs, sts, created)]

\* set_property_query builds "SET " for an empty map, which is no statement
SetIsMalformed(plist) == plist = <<>>

\* SET r.k = v for the pairs of an already sanitized list, on the edge r
RECURSIVE SetProperties(_, _)
SetProperties(props, plist) ==
    IF plist = <<>> THEN props
    ELSE SetProperties(Put(props, Head(plist)[1], Head(plist)[2]), Tail(plist))

\* create_or_update_properties_of_relationship with a_node[0] = na and b_node[0] = nb:
\* [ok, states, rels]
update_relationship_result(m, ns, sts, rs, na, nb, id_a, relationship_kind, id_b, plist, change_date) ==
    LET created == _create_new_state(ns, sts, rs, id_a, change_date)
        matched == MatchRelationships(ns, created.states, created.rels, relationship_kind,
                                      id_a, id_b, FALSE)
        updates == sanitize_dict_keys(plist)
    IN  IF ~_check_relationship_validity(m, ns, na, relationship_kind, nb, plist)
        THEN [ok |-> FALSE, states |-> sts, rels |-> rs]
        ELSE IF SetIsMalformed(plist)
        THEN [ok |-> FALSE, states |-> created.states, rels |-> created.rels]
        ELSE [ok |-> TRUE, states |-> created.states,
              rels |-> [e \in DOMAIN created.rels |->
                          IF e \in matched
                          THEN [created.rels[e] EXCEPT !.props = SetProperties(@, updates)]
                          ELSE created.rels[e]]]

\* a_node[0] and b_node[0] are any of the nodes the lookups return
create_or_update_properties_of_relationship(id_a, relationship_kind, id_b, plist, change_date) ==
    LET as == _get_entity_nodes(nodes, <<id_a>>)
        bs == _get_entity_nodes(nodes, <<id_b>>)
    IN  /\ \/ /\ as = {} \/ bs = {}
              /\ last' = Wrote("create_or_update_properties_of_relationship", FALSE)
              /\ UNCHANGED <<states, rels>>
           \/ \E na \in as, nb \in bs :
                 LET r == update_relationship_result(data_model, nodes, states, rels, na, nb,
                              id_a, relationship_kind, id_b, plist, change_date)
                 IN  /\ states' = r.states
                     /\ rels' = r.rels
                     /\ last' = Wrote("create_or_update_properties_of_relationship", r.ok)
        /\ UNCHANGED <<documents, redis, index, tree, ids, nodes, calls, data_model>>

(***************************************************************************)
(* SpecHistory: an entity, its properties and its relationships to itself  *)
(* and to a second entity, under every call that writes to the store.      *)
(***************************************************************************)
HistoryIds == {idA, idB}

HistoryProps == { << <<kH, "i1">> >> }

HistoryRelProps == { <<>>, << <<kH, "i1">> >> }

HistoryEntityStep ==
    \E id \in HistoryIds, plist \in HistoryProps :
        create_entity(kP, id, plist, 0) /\ RelRoom(nodes', states', rels')

HistoryUpdateStep ==
    create_or_update_properties_of_entities(<<idA>>, << <<kH, "i2">> >>, 0)
        /\ RelRoom(nodes', states', rels')

HistoryDeletePropertiesStep ==
    delete_properties_from_entity(idA, <<kH>>, 0) /\ RelRoom(nodes', states', rels')

HistoryDeleteEntityStep == delete_entity(idA, 0) /\ RelRoom(nodes', states', rels')

HistoryCreateRelationshipStep ==
    \E id_b \in HistoryIds :
        create_relationship(idA, kL, id_b, <<>>, 0) /\ RelRoom(nodes', states', rels')

HistoryUpdateRelationshipStep ==
    \E id_b \in HistoryIds, plist \in HistoryRelProps :
        create_or_update_properties_of_relationship(idA, kL, id_b, plist, 0)
            /\ RelRoom(nodes', states', rels')

HistoryDeleteRelationshipStep ==
    \E id_b \in HistoryIds :
        delete_relationship(idA, kL, id_b, 0) /\ RelRoom(nodes', states', rels')

NextHistory ==
    \/ KindStep
    \/ RelKindStep
    \/ HistoryEntityStep
    \/ HistoryUpdateStep
    \/ HistoryDeletePropertiesStep
    \/ HistoryDeleteEntityStep
    \/ HistoryCreateRelationshipStep
    \/ HistoryUpdateRelationshipStep
    \/ HistoryDeleteRelationshipStep

SpecHistory == Init /\ [][NextHistory]_vars

\* C32: a State that is no longer the current one of its entity keeps its property map
\* and its outgoing relationships through every later update or removal of properties,
\* soft removal of the entity, and creation, update or deletion of a relationship; the
\* call that supersedes a State leaves it as it was, too
C32_SupersededStatesAreFrozen ==
    [][\A i \in DOMAIN states :
          /\ i \in DOMAIN states'
          /\ (~states[i].current \/ ~states'[i].current) =>
                 /\ ~states'[i].current
                 /\ states'[i].props = states[i].props
                 /\ EdgesOf(rels', i) = EdgesOf(rels, i)]_vars

\* a superseded State still holds the property and the relationship that later calls
\* removed from the current State of its entity
C32_Witness ==
    /\ last.op = "delete_relationship" /\ last.ok
    /\ \E i \in DOMAIN states, c \in DOMAIN states :
          /\ ~states[i].current /\ states[c].current /\ states[c].ent = states[i].ent
          /\ kH \in DOMAIN states[i].props /\ kH \notin DOMAIN states[c].props
          /\ EdgesOf(rels, i) # <<>> /\ EdgesOf(rels, c) = <<>>

(***************************************************************************)
(* SpecRelProps: the validity check of relationship properties, applied to *)
(* data model files whose triples declare properties.  The file is read by *)
(* _load_ontology_data_model; create_relationship_kind adds triples to it. *)
(***************************************************************************)
IntH == Put(EmptyDict, kH, "int")

DeclaredTriples == { <<a, kP, d>> : a \in {kP, kH}, d \in {EmptyDict, IntH} }

\* the files with one relationship kind and one or two triples of different pairs
ModelFiles ==
    { [k \in {kL} |-> <<t>>] : t \in DeclaredTriples }
        \cup { f \in { [k \in {kL} |-> <<t, u>>] : t \in DeclaredTriples, u \in DeclaredTriples } :
                 f[kL][1][1] # f[kL][2][1] }

InitRelProps ==
    /\ tree = NoTree
    /\ ids = <<>>
    /\ nodes = <<>>
    /\ states = <<>>
    /\ last = Wrote("none", TRUE)
    /\ calls = [c \in Callers |-> Idle]
    /\ data_model \in ModelFiles
    /\ rels = <<>>
    /\ index = [user_id |-> None, rows |-> <<>>]
    /\ documents = NoDocuments
    /\ redis = NotConnected

\* what a check of properties leaves in last: the question and the answer
CheckedProperties(kind_a, relationship_kind, kind_b, plist, ok) ==
    [op |-> "check_properties", ok |-> ok, id |-> relationship_kind, date |-> 0,
     res |-> [found |-> ok, props |-> <<kind_a, kind_b, plist>>]]

check_relationship_properties(kind_a, relationship_kind, kind_b, plist) ==
    /\ last' = CheckedProperties(kind_a, relationship_kind, kind_b, plist,
                   _is_valid_relationship_model(data_model, kind_a, relationship_kind, kind_b,
                                                plist))
    /\ UNCHANGED <<documents, redis, index, tree, ids, nodes, states, calls, data_model, rels>>

RelPropLists == { <<>>, << <<kH, "i1">> >>, << <<kH, "s1">> >>, << <<kHx, "i1">> >> }

PropsKindStep == \E a \in {kP, kH} : create_relationship_kind(a, kL, kP)

PropsCheckStep ==
    \E kind_a \in {kP, kH}, plist \in RelPropLists :
        check_relationship_properties(kind_a, kL, kP, plist)

NextRelProps ==
    \/ PropsKindStep
    \/ PropsCheckStep

SpecRelProps == InitRelProps /\ [][NextRelProps]_vars

\* the triples of a relationship kind that are of the pair (kind_a, kind_b)
RECURSIVE OfPair(_, _, _)
OfPair(triples, kind_a, kind_b) ==
    IF triples = <<>> THEN <<>>
    ELSE IF Head(triples)[1] = kind_a /\ Head(triples)[2] = kind_b
         THEN <<Head(triples)>> \o OfPair(Tail(triples), kind_a, kind_b)
         ELSE OfPair(Tail(triples), kind_a, kind_b)

Declares(triple, plist) ==
    \A i \in DOMAIN plist :
        /\ plist[i][1] \in DOMAIN triple[3]
        /\ triple[3][plist[i][1]] = PyType(plist[i][2])

C35_OnlyTheNamedKindLeaves ==
    [][ \A k \in TreeKinds :
            (tree # NoTree /\ k \in DOMAIN tree /\ k \notin DOMAIN tree')
            => delete_entity_kind(k)
      ]_vars

(***************************************************************************)
(* querymaker.py: the parameter maps of the builders, and the maps the     *)
(* calls of graph.py merge them into.                                      *)
(***************************************************************************)
\* {f"new_{k}": v for k, v in properties.items()}
NewKeys(f) ==
    LET new_(k) == <<"n", "e", "w", "_">> \o k
    IN  [x \in { new_(k) : k \in DOMAIN f } |-> f[SubSeq(x, 5, Len(x))]]

\* {f"{k}_{var_name}": v for k, v in properties_filter.items()}
VarKeys(f, var_name) ==
    LET suffix == <<"_">> \o var_name
    IN  [x \in { k \o suffix : k \in DOMAIN f } |-> f[SubSeq(x, 1, Len(x) - Len(suffix))]]

match_node_query_params(var_name, plist) ==
    VarKeys(sanitize_dict_keys(plist), sanitize_alphanumeric(var_name))

create_relationship_query_params(plist) == NewKeys(sanitize_dict_keys(plist))

\* the maps init_entity_query merges: those of the immutable and of the state properties
init_entity_query_parts(immutable, state) ==
    <<NewKeys(sanitize_dict_keys(immutable)), NewKeys(sanitize_dict_keys(state))>>

\* {**first, **second, ...}
RECURSIVE Unpacked(_)
Unpacked(parts) ==
    IF parts = <<>> THEN EmptyDict
    ELSE Merge(Unpacked(SubSeq(parts, 1, Len(parts) - 1)), parts[Len(parts)])

\* what a merge of parameter maps leaves in last: the maps and the merged map
Merged(builder, parts) ==
    [op |-> "params", ok |-> TRUE, id |-> <<>>, date |-> 0,
     res |-> [found |-> TRUE, props |-> Unpacked(parts), builder |-> builder, parts |-> parts]]

\* create_entity: the parameters of init_entity_query
params_of_create_entity(entity_id, plist) ==
    /\ last' = Merged("init_entity_query",
                      init_entity_query_parts(<< <<kId, entity_id>> >>,
                                              Append(plist, <<DELETED, "bF">>)))
    /\ UNCHANGED <<documents, redis, index, tree, ids, nodes, states, calls, data_model, rels>>

\* create_relationship: {**filter_a, **filter_b, **rel_properties}
params_of_create_relationship(id_a, id_b, plist) ==
    /\ last' = Merged("create_relationship_query",
                      << match_node_query_params(idA, << <<kId, id_a>> >>),
                         match_node_query_params(idB, << <<kId, id_b>> >>),
                         create_relationship_query_params(Append(plist, <<DELETED, "bF">>)) >>)
    /\ UNCHANGED <<documents, redis, index, tree, ids, nodes, states, calls, data_model, rels>>

\* two match_node_query fragments of one query, with any two variable names
params_of_match_nodes(var_name_a, filter_a, var_name_b, filter_b) ==
    /\ last' = Merged("match_node_query",
                      << match_node_query_params(var_name_a, filter_a),
                         match_node_query_params(var_name_b, filter_b) >>)
    /\ UNCHANGED <<documents, redis, index, tree, ids, nodes, states, calls, data_model, rels>>

(***************************************************************************)
(* SpecParams: the parameter maps of the calls with any properties, and of *)
(* two node matches under the variable names "a" and "b".                  *)
(***************************************************************************)
ParamProps ==
    { <<>>, << <<kH, "i1">> >>, << <<kHx, "i1">> >>, << <<kId, "s1">> >>, << <<kId, "i1">> >>,
      << <<kH, "i1">>, <<kId, "s1">> >> }

ParamFilters ==
    { <<>>, << <<kId, "s1">> >>, << <<kId, "s2">> >>, << <<kH, "i1">> >>,
      << <<kH, "i1">>, <<kId, "s1">> >> }

\* two different variable names
VarNames == {<<idA, idB>>, <<idB, idA>>}

ParamIds == {"s1", "s2", "i1"}

ParamsCreateEntityStep ==
    \E entity_id \in ParamIds, plist \in ParamProps :
        params_of_create_entity(entity_id, plist)

ParamsCreateRelationshipStep ==
    \E id_a \in ParamIds, id_b \in ParamIds, plist \in ParamProps :
        params_of_create_relationship(id_a, id_b, plist)

ParamsMatchNodesStep ==
    \E names \in VarNames, filter_a \in ParamFilters, filter_b \in ParamFilters :
        params_of_match_nodes(names[1], filter_a, names[2], filter_b)

NextParams ==
    \/ ParamsCreateEntityStep
    \/ ParamsCreateRelationshipStep
    \/ ParamsMatchNodesStep

SpecParams == Init /\ [][NextParams]_vars

RECURSIVE Entries(_)
Entries(parts) ==
    IF parts = <<>> THEN 0 ELSE Cardinality(DOMAIN Head(parts)) + Entries(Tail(parts))

\* C36: the parameter maps that a builder or a call merges have no key in common, so
\* the merged map has an entry for every entry of every map and loses no value
C36_ParametersNeverCollide ==
    last.op = "params" =>
        /\ Cardinality(DOMAIN last.res.props) = Entries(last.res.parts)
        /\ \A i \in DOMAIN last.res.parts : \A k \in DOMAIN last.res.parts[i] :
              last.res.props[k] = last.res.parts[i][k]

(***************************************************************************)
(* graph.py: delete_properties_from_entity as the statements it runs, each *)
(* query a transaction of its own.  A caller's record holds the State its  *)
(* _create_new_state made and the State its second lookup returned.        *)
(***************************************************************************)
\* current_state = self._get_current_state_node(entity_id); raise if it is None
delete_properties_begin(c, entity_id, property_kinds, change_date) ==
    /\ calls[c].pc = "idle"
    /\ calls' = [calls EXCEPT ![c] =
                    [pc |-> IF Cardinality(CurrentStateRows(nodes, states, entity_id)) = 1
                            THEN "create_new_state" ELSE "raised",
                     kind |-> KIND, id |-> entity_id, props |-> property_kinds,
                     date |-> change_date, made |-> 0, state |-> 0]]
    /\ UNCHANGED <<documents, redis, index, tree, ids, nodes, states, last, data_model, rels>>

\* self._create_new_state(entity_id, change_date)
delete_properties_create_new_state(c) ==
    LET created == _create_new_state(nodes, states, rels, calls[c].id, calls[c].date)
    IN  /\ calls[c].pc = "create_new_state"
        /\ HasRoom(nodes, created.states)
        /\ states' = created.states
        /\ rels' = created.rels
        /\ calls' = [calls EXCEPT ![c].pc = "get_current_state",
                                  ![c].made = Len(created.states)]
        /\ UNCHANGED <<documents, redis, index, tree, ids, nodes, last, data_model>>

\* new_current_state = self._get_current_state_node(entity_id)
delete_properties_get_current_state(c) ==
    LET rows == CurrentStateRows(nodes, states, calls[c].id)
    IN  /\ calls[c].pc = "get_current_state"
        /\ calls' = [calls EXCEPT ![c].pc = IF Cardinality(rows) = 1 THEN "remove" ELSE "raised",
                                  ![c].state = IF Cardinality(rows) = 1
                                               THEN CHOOSE i \in rows : TRUE ELSE 0]
        /\ UNCHANGED <<documents, redis, index, tree, ids, nodes, states, last, data_model, rels>>

\* MATCH (state: State) WHERE id(state) = new_current_state.id REMOVE ...
delete_properties_remove(c) ==
    LET removed == { sanitize_alphanumeric(calls[c].props[i]) : i \in DOMAIN calls[c].props }
    IN  /\ calls[c].pc = "remove"
        /\ IF RemoveIsMalformed(calls[c].props)
           THEN /\ calls' = [calls EXCEPT ![c].pc = "raised"]
                /\ last' = Wrote("delete_properties", FALSE)
                /\ UNCHANGED states
           ELSE /\ states' = [states EXCEPT ![calls[c].state].props = Remove(@, removed)]
                /\ calls' = [calls EXCEPT ![c].pc = "returned"]
                /\ last' = Wrote("delete_properties", TRUE)
        /\ UNCHANGED <<documents, redis, index, tree, ids, nodes, data_model, rels>>

(***************************************************************************)
(* SpecDeleteRace: two callers remove a property of one entity while       *)
(* updates of the entity are made.                                         *)
(***************************************************************************)
DeleteRaceEntityStep ==
    create_entity(kP, idA, << <<kH, "i1">> >>, 0) /\ HasRoom(nodes', states')

DeleteRaceUpdateStep ==
    \E v \in {"i1", "i2"} :
        create_or_update_properties_of_entities(<<idA>>, << <<kH, v>> >>, 0)
            /\ HasRoom(nodes', states')

DeleteRaceBeginStep ==
    \E c \in Callers, property_kinds \in {<<kH>>, <<DELETED>>} :
        delete_properties_begin(c, idA, property_kinds, 0)

DeleteRaceCreateStateStep == \E c \in Callers : delete_properties_create_new_state(c)

DeleteRaceGetStateStep == \E c \in Callers : delete_properties_get_current_state(c)

DeleteRaceRemoveStep == \E c \in Callers : delete_properties_remove(c)

NextDeleteRace ==
    \/ KindStep
    \/ DeleteRaceEntityStep
    \/ DeleteRaceUpdateStep
    \/ DeleteRaceBeginStep
    \/ DeleteRaceCreateStateStep
    \/ DeleteRaceGetStateStep
    \/ DeleteRaceRemoveStep

SpecDeleteRace == Init /\ [][NextDeleteRace]_vars

\* C37: the REMOVE of a delete_properties_from_entity call changes the State that the
\* same call created and no other, and after it the current State of the entity has
\* none of the removed keys, whatever other calls ran between the statements of the call
C37_RemovesFromItsOwnState ==
    [][ \A c \in Callers :
            (delete_properties_remove(c) /\ last'.ok)
            => /\ \A i \in DOMAIN states : states'[i] # states[i] => i = calls[c].made
               /\ \A i \in CurrentStateRows(nodes, states', calls[c].id) :
                     \A k \in DOMAIN calls[c].props :
                         sanitize_alphanumeric(calls[c].props[k]) \notin DOMAIN states'[i].props
      ]_vars

(***************************************************************************)
(* graph.py: TerminusdbKnowledgeGraph.  A document is a map from property  *)
(* and relationship kinds to values; a value is None, one item, or a list  *)
(* of items.  A relationship of a kind is an item that is an entity id.    *)
(***************************************************************************)
NoneValue == [list |-> FALSE, items |-> <<>>]

Scalar(x) == [list |-> FALSE, items |-> <<x>>]

ListOf(xs) == [list |-> TRUE, items |-> xs]

\* list.append(prop_value)
AppendValue(value, prop_value) ==
    ListOf(Append(value.items, IF prop_value = NoneValue THEN None ELSE prop_value.items[1]))

\* self._client.update_document(entities): the document replaces the stored one
UpdateDocument(docs, entity_id, document) == [docs EXCEPT ![entity_id] = document]

\* create_or_update_properties_of_entities([entity_id], [[prop_kind]], [[prop_value]]):
\* [ok, documents]; entities_dict[entity_id] raises for an id without a document
terminus_update_result(docs, entity_id, prop_kind, prop_value) ==
    IF entity_id \notin DOMAIN docs THEN [ok |-> FALSE, documents |-> docs]
    ELSE LET entity == docs[entity_id]
             updated == IF prop_kind \in DOMAIN entity /\ entity[prop_kind].list
                        THEN Put(entity, prop_kind, AppendValue(entity[prop_kind], prop_value))
                        ELSE Put(entity, prop_kind, prop_value)
         IN  [ok |-> TRUE, documents |-> UpdateDocument(docs, entity_id, updated)]

\* create_entity: insert_document of a document with a new id
terminus_create_entity(entity_id, document) ==
    /\ documents' = IF entity_id \in DOMAIN documents THEN documents
                    ELSE [k \in (DOMAIN documents) \cup {entity_id} |->
                             IF k = entity_id THEN document ELSE documents[k]]
    /\ last' = Wrote("terminus_create_entity", entity_id \notin DOMAIN documents)
    /\ UNCHANGED <<redis, index, tree, ids, nodes, states, calls, data_model, rels>>

\* create_relationship: create_or_update_property_of_entity(id_a, relationship_kind, id_b)
terminus_create_relationship(id_a, relationship_kind, id_b) ==
    LET r == terminus_update_result(documents, id_a, relationship_kind, Scalar(id_b))
    IN  /\ documents' = r.documents
        /\ last' = Wrote("terminus_create_relationship", r.ok)
        /\ UNCHANGED <<redis, index, tree, ids, nodes, states, calls, data_model, rels>>

\* delete_relationship: create_or_update_property_of_entity(id_a, relationship_kind, None)
terminus_delete_relationship(id_a, relationship_kind, id_b) ==
    LET r == terminus_update_result(documents, id_a, relationship_kind, NoneValue)
    IN  /\ documents' = r.documents
        /\ last' = Wrote("terminus_delete_relationship", r.ok)
        /\ UNCHANGED <<redis, index, tree, ids, nodes, states, calls, data_model, rels>>

(***************************************************************************)
(* SpecTerminus: two documents and the relationships of one kind between   *)
(* them, kept as one item or as a list.                                    *)
(***************************************************************************)
TerminusIds == {idA, idB}

EmptyDocument == [k \in {} |-> NoneValue]

TerminusDocuments ==
    { EmptyDocument,
      Put(EmptyDocument, kH, Scalar(kP)),
      Put(EmptyDocument, kL, ListOf(<<>>)),
      Put(Put(EmptyDocument, kH, Scalar(kP)), kL, ListOf(<<>>)) }

\* the lists of a call's result are no longer than MaxRows
TerminusRoom(docs) ==
    \A e \in DOMAIN docs : \A k \in DOMAIN docs[e] : Len(docs[e][k].items) <= MaxRows

TerminusEntityStep ==
    \E entity_id \in TerminusIds, document \in TerminusDocuments :
        terminus_create_entity(entity_id, document)

TerminusCreateRelationshipStep ==
    \E id_a \in TerminusIds, id_b \in TerminusIds :
        terminus_create_relationship(id_a, kL, id_b) /\ TerminusRoom(documents')

TerminusDeleteRelationshipStep ==
    \E id_a \in TerminusIds, id_b \in TerminusIds :
        terminus_delete_relationship(id_a, kL, id_b) /\ TerminusRoom(documents')

NextTerminus ==
    \/ TerminusEntityStep
    \/ TerminusCreateRelationshipStep
    \/ TerminusDeleteRelationshipStep

SpecTerminus == Init /\ [][NextTerminus]_vars

\* the entities that id_a has a relationship of the kind to
Targets(docs, id_a, relationship_kind) ==
    IF id_a \in DOMAIN docs /\ relationship_kind \in DOMAIN docs[id_a]
    THEN { docs[id_a][relationship_kind].items[i] :
               i \in DOMAIN docs[id_a][relationship_kind].items } \ {None}
    ELSE {}

\* C38: delete_relationship(id_a, kind, id_b) of the TerminusDB store takes id_b out of
\* the entities that id_a has a relationship of the kind to and leaves the other
\* relationships of that kind, the other properties of id_a and every other document
\* as they were
C38_DeletesOnlyTheNamedEdge ==
    [][ \A id_a \in TerminusIds, id_b \in TerminusIds :
            (terminus_delete_relationship(id_a, kL, id_b) /\ id_a \in DOMAIN documents)
            => /\ Targets(documents', id_a, kL) = Targets(documents, id_a, kL) \ {id_b}
               /\ \A k \in DOMAIN documents[id_a] \ {kL} :
                     k \in DOMAIN documents'[id_a] /\ documents'[id_a][k] = documents[id_a][k]
               /\ \A e \in DOMAIN documents \ {id_a} : documents'[e] = documents[e]
      ]_vars

\* C39: a create_or_update_properties_of_relationship call for which the current State
\* of id_a has no relationship of the kind to id_b leaves the States and the
\* relationships as they were: it adds no State
C39_NoRelationshipNoChange ==
    [][ \A id_b \in HistoryIds, plist \in HistoryRelProps :
            ( /\ create_or_update_properties_of_relationship(idA, kL, id_b, plist, 0)
              /\ MatchRelationships(nodes, states, rels, kL, idA, id_b, FALSE) = {} )
            => states' = states /\ rels' = rels
      ]_vars

(***************************************************************************)
(* connector: connect_to_redis.  A key stands for the field                *)
(* key.split(".")[-2] that read_all_redis_keys sorts by; its value is a    *)
(* record.                                                                 *)
(***************************************************************************)
MaxKey == 3

RedisKeys == 1..MaxKey

\* sorted(keys, key=lambda k: k.split(".")[-2])
RECURSIVE read_all_redis_keys(_)
read_all_redis_keys(keys) ==
    IF keys = {} THEN <<>>
    ELSE LET first == CHOOSE k \in keys : \A other \in keys : k <= other
         IN  <<first>> \o read_all_redis_keys(keys \ {first})

\* json.loads(r_db.mget(key).pop())
read_redis_value(key) ==
    CASE key = 1 -> rA0
      [] key = 2 -> rB1
      [] OTHER -> rA2

\* MOVE_IN_SPACE and DELETED_THIS_ITEM
UNWANTED_SEMANTIC_ACTIONS == {"i74", "i72"}

ignore_semantic_actions(unwanted_semantic_actions, node_list) ==
    LET wanted(node) == node.SemanticAction \notin unwanted_semantic_actions
    IN  SelectSeq(node_list, wanted)

\* current_keys[-number_new_keys:], number_new_keys not 0
LastKeys(current_keys, number_new_keys) ==
    LET n == Len(current_keys)
        from == IF number_new_keys > 0
                THEN (IF number_new_keys >= n THEN 1 ELSE n - number_new_keys + 1)
                ELSE (IF -number_new_keys >= n THEN n + 1 ELSE -number_new_keys + 1)
    IN  SubSeq(current_keys, from, n)

\* the new keys of a poll
new_keys_of(old_keys, current_keys) ==
    LET number_new_keys == Len(current_keys) - Len(old_keys)
    IN  IF number_new_keys # 0 THEN LastKeys(current_keys, number_new_keys) ELSE <<>>

\* another client of the Redis database writes a key
redis_set(key) ==
    /\ key \notin redis.keys
    /\ redis' = [redis EXCEPT !.keys = @ \cup {key}]
    /\ UNCHANGED <<documents, index, tree, ids, nodes, states, last, calls, data_model, rels>>

\* another client of the Redis database deletes a key
redis_delete(key) ==
    /\ key \in redis.keys
    /\ redis' = [redis EXCEPT !.keys = @ \ {key}]
    /\ UNCHANGED <<documents, index, tree, ids, nodes, states, last, calls, data_model, rels>>

\* old_keys = read_all_redis_keys(r_db)
connect_to_redis_begin ==
    /\ redis.pc = "idle"
    /\ redis' = [redis EXCEPT !.pc = "polling", !.old_keys = read_all_redis_keys(redis.keys)]
    /\ UNCHANGED <<documents, index, tree, ids, nodes, states, last, calls, data_model, rels>>

\* one turn of the loop: the new keys are read and written to the graph
connect_to_redis_poll ==
    LET current_keys == read_all_redis_keys(redis.keys)
        new_keys == new_keys_of(redis.old_keys, current_keys)
        redis_data == [i \in DOMAIN new_keys |-> read_redis_value(new_keys[i])]
        records == ignore_semantic_actions(UNWANTED_SEMANTIC_ACTIONS, redis_data)
        r == insert_into_kg_result(Store, records, MaxDate)
    IN  /\ redis.pc = "polling"
        /\ redis' = [redis EXCEPT !.old_keys = current_keys, !.new_keys = new_keys]
        /\ IF new_keys = <<>>
           THEN UNCHANGED <<tree, ids, nodes, states, data_model, rels, last>>
           ELSE /\ tree' = r.tree
                /\ ids' = r.ids
                /\ nodes' = r.nodes
                /\ states' = r.states
                /\ data_model' = r.data_model
                /\ rels' = r.rels
                /\ last' = Inserted(records, MaxDate, r)
        /\ UNCHANGED <<documents, index, calls>>

(***************************************************************************)
(* SpecRedis: keys are written and deleted while connect_to_redis polls.   *)
(***************************************************************************)
RedisSetStep == \E key \in RedisKeys : redis_set(key)

RedisDeleteStep == \E key \in RedisKeys : redis_delete(key)

RedisBeginStep == connect_to_redis_begin

RedisPollStep == connect_to_redis_poll /\ RelRoom(nodes', states', rels')

NextRedis ==
    \/ RedisSetStep
    \/ RedisDeleteStep
    \/ RedisBeginStep
    \/ RedisPollStep

SpecRedis == Init /\ [][NextRedis]_vars

Elements(seq) == { seq[i] : i \in DOMAIN seq }

\* C40: a poll of connect_to_redis ingests the keys that are in the database and were
\* not there at the poll before, each once, and no key that was there at the poll before
C40_PollIngestsTheNewKeys ==
    [][ connect_to_redis_poll =>
            /\ Elements(redis'.new_keys) = redis.keys \ Elements(redis.old_keys)
            /\ Len(redis'.new_keys) = Cardinality(Elements(redis'.new_keys))
      ]_vars

====
